---- MODULE Spec2Model ----
(***************************************************************************)
(* Model of the prospectus text-analysis pipeline (prospectus-briefing),   *)
(* of the SEC proxy's rateLimitedFetch and of the briefing card's          *)
(* generateBriefing handler.                                               *)
(*                                                                         *)
(* Texts are TLA+ strings.  Indices are JavaScript's: 0-based, with the    *)
(* end of a slice exclusive.  The characters of a text are those of the    *)
(* alphabet the inputs below are built from (ASCII letters, digits, the    *)
(* blank characters space, \n, \t, \r and some punctuation).               *)
(***************************************************************************)
EXTENDS Integers, Sequences, FiniteSets, TLC

VARIABLES
  pc,          \* position of the caller of the analysis functions: "idle" | "done"
  op,          \* the function called last: "none" | "extractSections" | ...
  text,        \* the text argument of the last call (body innerText for analyzeProspectus)
  maxLen,      \* the maxLen argument of the last extractSubstantiveExcerpt call
  meta,        \* the meta argument of the last analyzeProspectus call
  result,      \* the value the last call returned
  spans,       \* the local sections of the last analyzeProspectus call (the spans found)
  lastIndex,   \* lastIndex of the module-level regular expressions CONDITIONAL, DEFINITIVE
  clock,       \* the wall clock read by new Date()
  calls,       \* the record of the analyzeProspectus calls made so far
  \* the SEC proxy (vite-sec-proxy.ts, server/index.js)
  time,            \* Date.now() of the proxy process, in ms
  lastRequestTime, \* the module-level let lastRequestTime
  callers,         \* per rateLimitedFetch call: its position and what it has read
  requests,        \* the times at which fetch() was called, in order
  \* the briefing card (ProspectusBriefing.tsx, WatchlistCard.tsx)
  briefing,    \* useState<ProspectusBriefing | null>(null)
  isLoading,   \* useState(false)
  handler,     \* the position of generateBriefing and the props it runs with
  errors,      \* the messages onError was called with, in order
  fetches,     \* the network requests the card has made, in order
  \* the filing service (sec-filing-service.ts)
  svcPc,       \* position of fetchRecentS1Filings: "idle" | "search" | "feed" | "done"
  dateFrom,    \* the dateFrom of getDateRange(daysBack)
  dateTo,      \* the dateTo of getDateRange(daysBack)
  searchList,  \* what fetchViaSearch returned
  rssList,     \* what fetchViaRecentS1 returned
  sent,        \* the requests the service has made, in order
  outcomes,    \* how each request that has ended ended: "threw" | "not ok" | "ok"
  returned,    \* the list fetchRecentS1Filings returned
  \* the arguments of deriveObservation (the content is in text)
  obsName,     \* the sectionName argument of the last deriveObservation call
  obsExcerpt,  \* its excerpt argument
  obsSections, \* its allSections argument
  \* the proxy handlers of api/sec
  apiPc,       \* where the proxy handler is: "idle" | "index" | "document" | "submissions" | "done"
  apiReq,      \* the request it serves: handler, method, query.cik, query.accession
  apiStatus,   \* the status it answered with (0: no answer yet)
  apiOutbound, \* the URLs it has requested from the SEC, in order
  \* the component ViewProspectusLink
  mounted,     \* whether ViewProspectusLink is mounted
  linkProps,   \* the props of its last render: cik, accessionNumber, primaryDocument
  url,         \* its url state
  urlFrom,     \* the effect run that set url: its props, whether by a response (for the properties)
  linkEffects, \* its effect runs that fetched: props, cancelled, whether the fetch has settled
  renders,     \* how often it has been given props
  \* the hook useSecFilings
  filings,     \* the filings state of useSecFilings
  recentFilings,\* its recentFilings state
  hookLoading, \* its isLoading state
  error,       \* its error state
  dataSource,  \* its dataSource state: "loading" | "sec-api" | "curated"
  lastUpdated, \* its lastUpdated state: 0 for null, else the run that set it
  hookArgs,    \* the arguments of its last render: daysBack, sectorFilter
  fetchRuns    \* the runs of fetchFilings started, in order, each with its locals

analysisVars == <<pc, op, text, maxLen, meta, result, spans, lastIndex, clock, calls>>
rateVars     == <<time, lastRequestTime, callers, requests>>
cardVars     == <<briefing, isLoading, handler, errors, fetches>>
serviceVars  == <<svcPc, dateFrom, dateTo, searchList, rssList, sent, outcomes, returned>>
obsVars      == <<obsName, obsExcerpt, obsSections>>
proxyVars    == <<apiPc, apiReq, apiStatus, apiOutbound>>
linkVars     == <<mounted, linkProps, url, urlFrom, linkEffects, renders>>
hookVars     == <<filings, recentFilings, hookLoading, error, dataSource, lastUpdated, hookArgs, fetchRuns>>

vars == <<pc, op, text, maxLen, meta, result, spans, lastIndex, clock, calls,
          time, lastRequestTime, callers, requests,
          briefing, isLoading, handler, errors, fetches,
          svcPc, dateFrom, dateTo, searchList, rssList, sent, outcomes, returned,
          obsName, obsExcerpt, obsSections,
          apiPc, apiReq, apiStatus, apiOutbound,
          mounted, linkProps, url, urlFrom, linkEffects, renders,
          filings, recentFilings, hookLoading, error, dataSource, lastUpdated, hookArgs, fetchRuns>>

(***************************************************************************)
(* JavaScript strings                                                      *)
(***************************************************************************)

Min(S) == CHOOSE x \in S : \A y \in S : x <= y
Max(S) == CHOOSE x \in S : \A y \in S : x >= y

\* s[i], or "" outside the string
CharAt(s, i) == IF i >= 0 /\ i < Len(s) THEN SubSeq(s, i + 1, i + 1) ELSE ""

\* s.slice(a, b) for 0 <= a
Slice(s, a, b) ==
  LET hi == IF b > Len(s) THEN Len(s) ELSE b
  IN IF a >= hi THEN "" ELSE SubSeq(s, a + 1, hi)

\* s.slice(a)
SliceFrom(s, a) == Slice(s, a, Len(s))

\* \s of the regular expressions, on the model's alphabet
IsWs(c) == c \in {" ", "\n", "\t", "\r"}

\* \d
IsDigit(c) == c \in {"0", "1", "2", "3", "4", "5", "6", "7", "8", "9"}

LowerCase == "abcdefghijklmnopqrstuvwxyz"
UpperCase == "ABCDEFGHIJKLMNOPQRSTUVWXYZ"

LowerLetters == {SubSeq(LowerCase, k, k) : k \in 1..Len(LowerCase)}
UpperLetters == {SubSeq(UpperCase, k, k) : k \in 1..Len(UpperCase)}

\* the lower-case letter of an upper-case letter, and the reverse
LowerOf ==
  [c \in UpperLetters |->
     SubSeq(LowerCase, CHOOSE k \in 1..Len(UpperCase) : SubSeq(UpperCase, k, k) = c,
                       CHOOSE k \in 1..Len(UpperCase) : SubSeq(UpperCase, k, k) = c)]

UpperOf ==
  [c \in LowerLetters |->
     SubSeq(UpperCase, CHOOSE k \in 1..Len(LowerCase) : SubSeq(LowerCase, k, k) = c,
                       CHOOSE k \in 1..Len(LowerCase) : SubSeq(LowerCase, k, k) = c)]

LowerChar(c) == IF c \in UpperLetters THEN LowerOf[c] ELSE c
UpperChar(c) == IF c \in LowerLetters THEN UpperOf[c] ELSE c

\* \w
IsWordChar(c) == c \in LowerLetters \/ c \in UpperLetters \/ IsDigit(c) \/ c = "_"

\* The strings parts[lo], ..., parts[hi] put together in order.
RECURSIVE Build(_, _, _)
Build(parts, lo, hi) ==
  IF lo > hi THEN ""
  ELSE IF lo = hi THEN parts[lo]
  ELSE Build(parts, lo, (lo + hi) \div 2) \o Build(parts, (lo + hi) \div 2 + 1, hi)

\* s.toLowerCase(), s.toUpperCase()
ToLowerCase(s) == Build([i \in 0..(Len(s) - 1) |-> LowerChar(CharAt(s, i))], 0, Len(s) - 1)
ToUpperCase(s) == Build([i \in 0..(Len(s) - 1) |-> UpperChar(CharAt(s, i))], 0, Len(s) - 1)

\* s.trim()
Trim(s) ==
  LET n == Len(s)
      a == CHOOSE j \in 0..n :
             /\ j = n \/ ~IsWs(CharAt(s, j))
             /\ \A k \in 0..(j - 1) : IsWs(CharAt(s, k))
      b == CHOOSE j \in 0..n :
             /\ j = n \/ ~IsWs(CharAt(s, n - 1 - j))
             /\ \A k \in 0..(j - 1) : IsWs(CharAt(s, n - 1 - k))
  IN Slice(s, a, n - b)

\* s.indexOf(c, from) for a one-character c
IndexOf(s, c, from) ==
  IF from >= Len(s) THEN -1
  ELSE LET j == CHOOSE j \in from..Len(s) :
                  /\ j = Len(s) \/ CharAt(s, j) = c
                  /\ \A k \in from..(j - 1) : CharAt(s, k) # c
       IN IF j = Len(s) THEN -1 ELSE j

\* s.includes(sub)
Includes(s, sub) ==
  \E i \in 0..(Len(s) - Len(sub)) : Slice(s, i, i + Len(sub)) = sub

\* s.replace(/\s+/g, ' ')
CollapseWs(s) ==
  Build([i \in 0..(Len(s) - 1) |->
           IF IsWs(CharAt(s, i))
           THEN (IF i > 0 /\ IsWs(CharAt(s, i - 1)) THEN "" ELSE " ")
           ELSE CharAt(s, i)],
        0, Len(s) - 1)

\* s.replace(/\n+/g, ' ')
FlattenNewlines(s) ==
  Build([i \in 0..(Len(s) - 1) |->
           IF CharAt(s, i) = "\n"
           THEN (IF i > 0 /\ CharAt(s, i - 1) = "\n" THEN "" ELSE " ")
           ELSE CharAt(s, i)],
        0, Len(s) - 1)

\* s.split(/\s+/).length: one more than the number of maximal blank runs
WordCount(s) ==
  Cardinality({i \in 0..(Len(s) - 1) :
                 IsWs(CharAt(s, i)) /\ ~IsWs(CharAt(s, i - 1))}) + 1

\* the end (exclusive) of the run of characters satisfying In that starts at i
SkipWhile(In(_), s, i) ==
  IF i >= Len(s) THEN i
  ELSE CHOOSE j \in i..Len(s) :
         /\ j = Len(s) \/ ~In(CharAt(s, j))
         /\ \A k \in i..(j - 1) : In(CharAt(s, k))

\* the end (exclusive) of the run of blank characters starting at i
SkipWs(s, i) == SkipWhile(IsWs, s, i)

\* the end (exclusive) of the run of digits starting at i
SkipDigits(s, i) == SkipWhile(IsDigit, s, i)

\* the literal w at position i of s, ignoring case when ci (the i flag)
LitAt(s, i, w, ci) ==
  /\ i >= 0
  /\ i + Len(w) <= Len(s)
  /\ IF ci THEN \A k \in 0..(Len(w) - 1) :
                   LowerChar(CharAt(s, i + k)) = LowerChar(CharAt(w, k))
           ELSE Slice(s, i, i + Len(w)) = w

\* A sequence of words separated by \s+ (such as Risk\s+Factors), matched at
\* position i.  The value is the end of the match, or -1.  \s+ is greedy and
\* every word starts with a letter, so the match is unique.
RECURSIVE WordsAt(_, _, _, _)
WordsAt(s, i, ws, ci) ==
  IF ws = <<>> THEN i
  ELSE IF ~LitAt(s, i, Head(ws), ci) THEN -1
  ELSE LET e == i + Len(Head(ws))
       IN IF Len(ws) = 1 THEN e
          ELSE IF ~IsWs(CharAt(s, e)) THEN -1
          ELSE WordsAt(s, SkipWs(s, e), Tail(ws), ci)

(***************************************************************************)
(* The regular expressions of the module                                   *)
(***************************************************************************)

NoMatch == [index |-> -1, end |-> -1, g |-> ""]

\* (?:Item\s+\d+[A-Z]?\.\s*) at position i: the end of the match, or -1.
\* Under the i flag [A-Z] is any letter.
ItemPrefixAt(s, i) ==
  IF ~LitAt(s, i, "Item", TRUE) \/ ~IsWs(CharAt(s, i + 4)) THEN -1
  ELSE LET d  == SkipWs(s, i + 4)
           e  == SkipDigits(s, d)
           l  == IF CharAt(s, e) \in LowerLetters \cup UpperLetters THEN e + 1 ELSE e
       IN IF e = d THEN -1
          ELSE IF CharAt(s, l) = "." THEN SkipWs(s, l + 1)
          ELSE IF CharAt(s, e) = "." THEN SkipWs(s, e + 1)
          ELSE -1

\* \s*[\n:.] (stops = {":", "."}) or \s*\n (stops = {}) after a name ending
\* at e: the end of the match, or -1.  \s* is greedy: it runs to the end of
\* the blank run and gives characters back until a newline follows.
HeadingTailAt(s, e, stops) ==
  LET r  == SkipWs(s, e)
      nl == {j \in e..(r - 1) : CharAt(s, j) = "\n"}
  IN IF CharAt(s, r) \in stops THEN r + 1
     ELSE IF nl # {} THEN Max(nl) + 1
     ELSE -1

\* SECTION_PATTERNS.  A pattern is
\*   (?:^|\n)\s*(?:Item\s+\d+[A-Z]?\.\s*)?(alt1|alt2)\s*[\n:.]
\* item: the Item prefix is allowed; alts: the alternatives of the capturing
\* group, each a sequence of words separated by \s+; ci: the i flag; stops:
\* the punctuation that may end the heading besides a newline.  The optional
\* apostrophe of Management's is spelled out as two ASCII alternatives.
SECTION_PATTERNS == <<
  [item |-> TRUE,  ci |-> TRUE,  stops |-> {":", "."}, alts |-> << <<"Prospectus", "Summary">> >>],
  [item |-> TRUE,  ci |-> TRUE,  stops |-> {":", "."}, alts |-> << <<"Risk", "Factors">> >>],
  [item |-> TRUE,  ci |-> TRUE,  stops |-> {":", "."}, alts |-> << <<"Use", "of", "Proceeds">> >>],
  [item |-> TRUE,  ci |-> TRUE,  stops |-> {":", "."}, alts |-> << <<"Our", "Business">>, <<"Business">> >>],
  [item |-> TRUE,  ci |-> TRUE,  stops |-> {":", "."},
   alts |-> << <<"Management's", "Discussion">>, <<"Managements", "Discussion">>,
               <<"Selected", "Financial">> >>],
  [item |-> TRUE,  ci |-> TRUE,  stops |-> {":", "."}, alts |-> << <<"Capitalization">>, <<"Dilution">> >>],
  [item |-> TRUE,  ci |-> TRUE,  stops |-> {":", "."}, alts |-> << <<"Description", "of", "Securities">> >>],
  [item |-> TRUE,  ci |-> TRUE,  stops |-> {":", "."}, alts |-> << <<"Underwriting">> >>],
  [item |-> TRUE,  ci |-> TRUE,  stops |-> {":", "."}, alts |-> << <<"Legal", "Matters">>, <<"Experts">> >>],
  [item |-> TRUE,  ci |-> TRUE,  stops |-> {":", "."}, alts |-> << <<"Where", "You", "Can", "Find">> >>],
  [item |-> FALSE, ci |-> TRUE,  stops |-> {":", "."}, alts |-> << <<"Offering">> >>],
  [item |-> FALSE, ci |-> FALSE, stops |-> {},         alts |-> << <<"RISK", "FACTORS">> >>],
  [item |-> FALSE, ci |-> FALSE, stops |-> {},         alts |-> << <<"USE", "OF", "PROCEEDS">> >>] >>

\* the alternatives of the group tried in order at position p
RECURSIVE AltsAt(_, _, _, _, _)
AltsAt(s, i, p, pat, k) ==
  IF k > Len(pat.alts) THEN NoMatch
  ELSE LET e == WordsAt(s, p, pat.alts[k], pat.ci)
           t == IF e < 0 THEN -1 ELSE HeadingTailAt(s, e, pat.stops)
       IN IF t >= 0 THEN [index |-> i, end |-> t, g |-> Slice(s, p, e)]
          ELSE AltsAt(s, i, p, pat, k + 1)

\* the match of a section pattern that starts at position i, or NoMatch
SectionMatchAt(s, i, pat) ==
  IF ~(i = 0 \/ CharAt(s, i) = "\n") THEN NoMatch
  ELSE LET p1 == SkipWs(s, IF CharAt(s, i) = "\n" THEN i + 1 ELSE i)
           it == IF pat.item THEN ItemPrefixAt(s, p1) ELSE -1
           p2 == IF it >= 0 THEN it ELSE p1
       IN AltsAt(s, i, p2, pat, 1)

\* The matches that a loop of r.exec(s) returns for a regular expression
\* with the g flag whose lastIndex is from, as far as they start in lo..hi:
\* the leftmost match that starts at or after lastIndex, then the leftmost
\* that starts at or after its end, and so on.  at[i] is the match that
\* starts at position i of s, or NoMatch.  last is the lastIndex reached.
\* The range is searched in halves, the first before the second; a range of
\* fewer than 64 positions is searched match by match.
RECURSIVE ExecRange(_, _, _, _)

\* the matches from the leftmost of the starts found in a range that ends at hi
ExecNext(at, hi, from, starts) ==
  IF starts = {} THEN [found |-> <<>>, last |-> from]
  ELSE LET m    == at[Min(starts)]
           rest == ExecRange(at, m.index + 1, hi, m.end)
       IN [found |-> <<m>> \o rest.found, last |-> rest.last]

\* the matches of lo..hi, the second half of a range, after those of the first
ExecSecondHalf(at, lo, hi, left) ==
  LET right == ExecRange(at, lo, hi, left.last)
  IN [found |-> left.found \o right.found, last |-> right.last]

ExecRange(at, lo, hi, from) ==
  IF lo > hi \/ hi < from THEN [found |-> <<>>, last |-> from]
  ELSE IF hi - lo < 64
  THEN ExecNext(at, hi, from, {i \in lo..hi : i >= from /\ at[i] # NoMatch})
  ELSE ExecSecondHalf(at, (lo + hi) \div 2 + 1, hi, ExecRange(at, lo, (lo + hi) \div 2, from))

\* every match of a regular expression with the g flag, from lastIndex 0
ExecLoop(at, n) == ExecRange(at, 0, n - 1, 0).found

\* the matches of one of the SECTION_PATTERNS in s
SectionMatches(s, pat) ==
  ExecLoop([i \in 0..(Len(s) - 1) |-> SectionMatchAt(s, i, pat)], Len(s))

IsHexDash(c) ==
  IsDigit(c) \/ c = "-" \/ LowerChar(c) \in {"a", "b", "c", "d", "e", "f"}

IsRoman(c) == LowerChar(c) \in {"i", "v", "x", "l", "c", "d", "m"}

\* BOILERPLATE_PATTERNS.some((p) => p.test(s)).  The patterns carry no g
\* flag, so test() neither reads nor writes their lastIndex.
\*   0  ^\s*\d+\s+[a-f0-9-]+\.htm\s+                        i
\*   1  ^\s*PROSPECTUS\s+PROSPECTUS\s*                       i
\*   2  ^\s*Filed\s+Pursuant\s+to\s+Rule\s+424               i
\*   3  ^\s*Registration\s+No\.\s+\d+                        i
\*   4  ^\s*\$\s*[\d,]+(?:\.\d+)?\s*(?:million|billion)?     i
\*   5  ^\s*Table\s+of\s+Contents\s*$                        i
\*   6  ^\s*[ivxlcdm]+\s*\.                                  i
\*   7  ^\s*\(\d+\)\s*$
\*   8  ^\s*page\s+\d+                                       i
BOILERPLATE_PATTERNS(s, k) ==
  LET p == SkipWs(s, 0)
  IN CASE k = 0 ->
            LET d == SkipDigits(s, p)
                h == SkipWs(s, d)
                x == SkipWhile(IsHexDash, s, h)
            IN /\ d > p
               /\ h > d
               /\ x > h
               /\ LitAt(s, x, ".htm", TRUE)
               /\ IsWs(CharAt(s, x + 4))
       [] k = 1 -> WordsAt(s, p, <<"PROSPECTUS", "PROSPECTUS">>, TRUE) >= 0
       [] k = 2 -> WordsAt(s, p, <<"Filed", "Pursuant", "to", "Rule", "424">>, TRUE) >= 0
       [] k = 3 ->
            LET e == WordsAt(s, p, <<"Registration", "No.">>, TRUE)
            IN /\ e >= 0
               /\ IsWs(CharAt(s, e))
               /\ IsDigit(CharAt(s, SkipWs(s, e)))
       [] k = 4 ->
            /\ CharAt(s, p) = "$"
            /\ LET q == CharAt(s, SkipWs(s, p + 1)) IN IsDigit(q) \/ q = ","
       [] k = 5 ->
            LET e == WordsAt(s, p, <<"Table", "of", "Contents">>, TRUE)
            IN e >= 0 /\ SkipWs(s, e) = Len(s)
       [] k = 6 ->
            LET r == SkipWhile(IsRoman, s, p)
            IN r > p /\ CharAt(s, SkipWs(s, r)) = "."
       [] k = 7 ->
            LET d == SkipDigits(s, p + 1)
            IN /\ CharAt(s, p) = "("
               /\ d > p + 1
               /\ CharAt(s, d) = ")"
               /\ SkipWs(s, d + 1) = Len(s)
       [] OTHER ->
            /\ LitAt(s, p, "page", TRUE)
            /\ IsWs(CharAt(s, p + 4))
            /\ IsDigit(CharAt(s, SkipWs(s, p + 4)))

NumBoilerplatePatterns == 9

IsBoilerplate(s) == \E k \in 0..(NumBoilerplatePatterns - 1) : BOILERPLATE_PATTERNS(s, k)

\* line.length < 60 && /[\d-]{10}|\.htm|333-|Rule\s+424/i.test(line)
IsShortMetadata(line) ==
  /\ Len(line) < 60
  /\ \E i \in 0..(Len(line) - 1) :
       \/ /\ i + 10 <= Len(line)
          /\ \A k \in 0..9 : IsDigit(CharAt(line, i + k)) \/ CharAt(line, i + k) = "-"
       \/ LitAt(line, i, ".htm", TRUE)
       \/ LitAt(line, i, "333-", TRUE)
       \/ WordsAt(line, i, <<"Rule", "424">>, TRUE) >= 0

\* line.length >= 80 && /[a-z]/.test(line) && !/^[\d\s$.,]+$/.test(line)
IsSubstantive(line) ==
  /\ Len(line) >= 80
  /\ \E i \in 0..(Len(line) - 1) : CharAt(line, i) \in LowerLetters
  /\ \E i \in 0..(Len(line) - 1) :
       LET c == CharAt(line, i)
       IN ~(IsDigit(c) \/ IsWs(c) \/ c \in {"$", ".", ","})

MaxScanLines == 50
MetadataLines == 5

\* StripLoop with "if (!started) skipChars = 0" left out
RECURSIVE StripLoopKeep(_, _, _, _)
StripLoopKeep(t, i, pos, skip) ==
  IF i >= MaxScanLines \/ pos > Len(t) THEN [started |-> FALSE, skipChars |-> skip]
  ELSE LET nl   == IndexOf(t, "\n", pos)
           end  == IF nl < 0 THEN Len(t) ELSE nl
           raw  == Slice(t, pos, end)
           line == Trim(raw)
       IN IF line = "" THEN StripLoopKeep(t, i + 1, end + 1, skip)
          ELSE IF IsBoilerplate(line) \/ (i < MetadataLines /\ IsShortMetadata(line))
               THEN StripLoopKeep(t, i + 1, end + 1, skip + Len(raw) + 1)
          ELSE IF IsSubstantive(line) THEN [started |-> TRUE, skipChars |-> skip]
          ELSE StripLoopKeep(t, i + 1, end + 1, skip)

\* The loop of stripBoilerplate from line i, which starts at position pos,
\* with skipChars = skip: the value of skipChars after the loop and "if
\* (!started) skipChars = 0".
RECURSIVE StripLoop(_, _, _, _)
StripLoop(t, i, pos, skip) ==
  IF i >= MaxScanLines \/ pos > Len(t) THEN [started |-> FALSE, skipChars |-> 0]
  ELSE LET nl   == IndexOf(t, "\n", pos)
           end  == IF nl < 0 THEN Len(t) ELSE nl
           raw  == Slice(t, pos, end)
           line == Trim(raw)
       IN IF line = "" THEN StripLoop(t, i + 1, end + 1, skip)
          ELSE IF IsBoilerplate(line) \/ (i < MetadataLines /\ IsShortMetadata(line))
               THEN StripLoop(t, i + 1, end + 1, skip + Len(raw) + 1)
          ELSE IF IsSubstantive(line) THEN [started |-> TRUE, skipChars |-> skip]
          ELSE StripLoop(t, i + 1, end + 1, skip)

stripBoilerplate(t) == Trim(SliceFrom(t, StripLoop(t, 0, 0, 0).skipChars))

normalizeSectionName(name) ==
  LET n == ToUpperCase(name)
  IN IF n = "RISK FACTORS" THEN "Risk Factors"
     ELSE IF n = "USE OF PROCEEDS" THEN "Use of Proceeds"
     ELSE IF Includes(n, "BUSINESS") THEN "Our Business"
     ELSE CollapseWs(Trim(name))

DedupWindow == 30
HeadingLineMax == 120
MinSectionChars == 150
FallbackMinChars == 500
FallbackMaxChars == 20000

\* RecordMatches with the test for a recorded match nearby left out
RECURSIVE RecordMatchesAll(_, _, _)
RecordMatchesAll(matches, ms, k) ==
  IF k > Len(ms) THEN matches
  ELSE RecordMatchesAll(Append(matches, [name  |-> normalizeSectionName(Trim(ms[k].g)),
                                         index |-> ms[k].index]),
                        ms, k + 1)

\* the inner while loop of extractSections over the matches ms of one
\* pattern: a match is recorded unless a recorded match lies within 30
\* characters of it
RECURSIVE RecordMatches(_, _, _)
RecordMatches(matches, ms, k) ==
  IF k > Len(ms) THEN matches
  ELSE LET idx      == ms[k].index
           name     == normalizeSectionName(Trim(ms[k].g))
           existing == \E j \in 1..Len(matches) :
                          LET d == matches[j].index - idx
                          IN (IF d < 0 THEN -d ELSE d) < DedupWindow
       IN RecordMatches(IF existing THEN matches
                        ELSE Append(matches, [name |-> name, index |-> idx]),
                        ms, k + 1)

\* CollectMatches with the recorded matches of the other patterns
\* forgotten when a pattern is run
RECURSIVE CollectMatchesFresh(_, _, _)
CollectMatchesFresh(cleaned, matches, i) ==
  IF i > Len(SECTION_PATTERNS) THEN matches
  ELSE CollectMatchesFresh(cleaned,
                           matches \o RecordMatches(<<>>, SectionMatches(cleaned, SECTION_PATTERNS[i]), 1),
                           i + 1)

\* the for loop of extractSections over SECTION_PATTERNS
RECURSIVE CollectMatches(_, _, _)
CollectMatches(cleaned, matches, i) ==
  IF i > Len(SECTION_PATTERNS) THEN matches
  ELSE CollectMatches(cleaned,
                      RecordMatches(matches, SectionMatches(cleaned, SECTION_PATTERNS[i]), 1),
                      i + 1)

\* SortByIndex with the sort left out
SortByIndexNone(matches) == matches

\* matches.sort((a, b) => a.index - b.index): the recorded indices differ
SortByIndex(matches) ==
  [r \in 1..Len(matches) |->
     CHOOSE m \in {matches[j] : j \in 1..Len(matches)} :
       Cardinality({j \in 1..Len(matches) : matches[j].index < m.index}) = r - 1]

\* the content of the span of match i of the sorted matches
SpanContent(cleaned, matches, i) ==
  LET start        == matches[i].index
      end          == IF i + 1 <= Len(matches) THEN matches[i + 1].index ELSE Len(cleaned)
      content      == Slice(cleaned, start, end)
      firstNewline == IndexOf(content, "\n", 0)
  IN IF firstNewline > 0 /\ firstNewline < HeadingLineMax
     THEN Trim(SliceFrom(content, firstNewline))
     ELSE content

\* KeepSpan with the threshold mistyped as 15
KeepSpanShort(content) == Len(content) > 15

\* a span is kept when its content is long enough
KeepSpan(content) == Len(content) > MinSectionChars

RECURSIVE BuildSpans(_, _, _)
BuildSpans(cleaned, matches, i) ==
  IF i > Len(matches) THEN <<>>
  ELSE LET content == SpanContent(cleaned, matches, i)
       IN (IF KeepSpan(content)
           THEN << [name |-> matches[i].name, content |-> content, start |-> matches[i].index] >>
           ELSE <<>>)
          \o BuildSpans(cleaned, matches, i + 1)

\* the return of extractSections: the spans, or the single Summary span
SpansOrSummary(cleaned, sections) ==
  IF Len(sections) = 0 /\ Len(cleaned) > FallbackMinChars
  THEN << [name |-> "Summary", content |-> Slice(cleaned, 0, FallbackMaxChars), start |-> 0] >>
  ELSE sections

\* extractSections after  const cleaned = stripBoilerplate(text)
SectionsOf(cleaned) ==
  SpansOrSummary(cleaned, BuildSpans(cleaned, SortByIndex(CollectMatches(cleaned, <<>>, 1)), 1))

extractSections(t) == SectionsOf(stripBoilerplate(t))

\* The one-character ellipsis U+2026 that hard truncation appends.  It is
\* written "~" here, a character that occurs in no input text.
Ellipsis == "~"

MinParagraphChars == 60
MinFlatChars == 80
FlatPeriodFrom == 200
FlatPeriodMin == 100

\* TruncateParagraph marking the hard truncation with three full stops
\* instead of the ellipsis character
TruncateParagraphDots(clean, maxL) ==
  LET from == IF maxL < Len(clean) - 1 THEN maxL ELSE Len(clean) - 1
      idx  == IndexOf(clean, ".", from)
  IN IF 2 * idx > maxL THEN Trim(Slice(clean, 0, idx + 1))
     ELSE Trim(Slice(clean, 0, maxL)) \o "..."

\* the excerpt cut from a candidate paragraph longer than maxLen:
\*   const idx = clean.indexOf('.', Math.min(maxLen, clean.length - 1));
\*   if (idx > maxLen / 2) return clean.slice(0, idx + 1).trim();
\*   return clean.slice(0, maxLen).trim() + ELLIPSIS;
TruncateParagraph(clean, maxL) ==
  LET from == IF maxL < Len(clean) - 1 THEN maxL ELSE Len(clean) - 1
      idx  == IndexOf(clean, ".", from)
  IN IF 2 * idx > maxL THEN Trim(Slice(clean, 0, idx + 1))
     ELSE Trim(Slice(clean, 0, maxL)) \o Ellipsis

\* the excerpt taken when no paragraph qualifies
FlatExcerpt(content, maxL) ==
  LET flat == Trim(FlattenNewlines(content))
      idx  == IndexOf(flat, ".", FlatPeriodFrom)
  IN IF Len(flat) > MinFlatChars
     THEN (IF idx > FlatPeriodMin THEN Slice(flat, 0, idx + 1)
           ELSE Slice(flat, 0, maxL) \o Ellipsis)
     ELSE ""

IsNewline(c) == c = "\n"

\* the loop over content.split(/\n\n+/) from the paragraph that starts at pos
RECURSIVE ParagraphLoop(_, _, _)
ParagraphLoop(content, maxL, pos) ==
  IF pos > Len(content) THEN FlatExcerpt(content, maxL)
  ELSE LET n     == Len(content)
           sep   == CHOOSE j \in pos..n :
                      /\ j = n \/ (CharAt(content, j) = "\n" /\ CharAt(content, j + 1) = "\n")
                      /\ \A k \in pos..(j - 1) :
                           ~(CharAt(content, k) = "\n" /\ CharAt(content, k + 1) = "\n")
           next  == IF sep = n THEN n + 1 ELSE SkipWhile(IsNewline, content, sep)
           clean == Trim(CollapseWs(Slice(content, pos, sep)))
       IN IF Len(clean) < MinParagraphChars THEN ParagraphLoop(content, maxL, next)
          ELSE IF IsBoilerplate(clean) THEN ParagraphLoop(content, maxL, next)
          ELSE IF Len(clean) <= maxL THEN clean
          ELSE TruncateParagraph(clean, maxL)

extractSubstantiveExcerpt(content, maxL) == ParagraphLoop(content, maxL, 0)

(***************************************************************************)
(* The phrase classes and the metrics                                      *)
(***************************************************************************)

\* the alternatives of CONDITIONAL and of DEFINITIVE, in the order written
ConditionalWords ==
  <<"may", "might", "could", "would", "should", "intend", "expect", "believe",
    "anticipate", "seek", "plan", "aim">>

DefinitiveWords ==
  <<"have", "has", "had", "do", "does", "did", "generate", "generated",
    "operate", "operates", "provide", "provides">>

\* \b at position i
WordBoundary(s, i) == IsWordChar(CharAt(s, i - 1)) # IsWordChar(CharAt(s, i))

\* (w1|w2|...)\b at position p, alternatives tried in order from the k-th
RECURSIVE WordAltAt(_, _, _, _)
WordAltAt(s, p, words, k) ==
  IF k > Len(words) THEN -1
  ELSE IF LitAt(s, p, words[k], TRUE) /\ WordBoundary(s, p + Len(words[k]))
       THEN p + Len(words[k])
  ELSE WordAltAt(s, p, words, k + 1)

\* \b(we\s+)?(w1|w2|...)\b with flags gi, matched at position i.  g is the
\* second capturing group.
PhraseMatchAt(s, i, words) ==
  IF ~WordBoundary(s, i) THEN NoMatch
  ELSE LET p  == IF LitAt(s, i, "we", TRUE) /\ IsWs(CharAt(s, i + 2))
                 THEN SkipWs(s, i + 2) ELSE i
           e1 == WordAltAt(s, p, words, 1)
           e2 == IF e1 < 0 /\ p # i THEN WordAltAt(s, i, words, 1) ELSE -1
       IN IF e1 >= 0 THEN [index |-> i, end |-> e1, g |-> Slice(s, p, e1)]
          ELSE IF e2 >= 0 THEN [index |-> i, end |-> e2, g |-> Slice(s, i, e2)]
          ELSE NoMatch

\* StringMatchGlobal as it would be if the matches were collected with exec()
\* on the shared regular expression and the loop stopped at the last match:
\* the search starts at the lastIndex found and leaves it after that match
StringMatchGlobalSticky(s, words, li) ==
  LET run == ExecRange([i \in 0..(Len(s) - 1) |-> PhraseMatchAt(s, i, words)], 0, Len(s) - 1, li)
  IN [found |-> run.found, lastIndex |-> IF run.found = <<>> THEN 0 ELSE run.last]

\* s.match(re) for the module-level regular expression re of the phrase
\* class words, which carries the g flag and whose lastIndex is li: match()
\* sets lastIndex to 0, collects every match and leaves lastIndex at 0.
StringMatchGlobal(s, words, li) ==
  [found     |-> ExecRange([i \in 0..(Len(s) - 1) |-> PhraseMatchAt(s, i, words)],
                           0, Len(s) - 1, 0).found,
   lastIndex |-> 0]

\* Tally with every phrase counted once
TallyOnes(ms) ==
  LET phraseOf(k) == ToLowerCase(ms[k].g)
      firsts == {k \in 1..Len(ms) : \A j \in 1..(k - 1) : phraseOf(j) # phraseOf(k)}
      nth(r) == CHOOSE k \in firsts : Cardinality({j \in firsts : j < k}) = r - 1
  IN [r \in 1..Cardinality(firsts) |-> [phrase |-> phraseOf(nth(r)), count |-> 1]]

\* The Map that the loop counts.set(phrase, (counts.get(phrase) ?? 0) + 1)
\* builds over the matches ms: one entry per distinct lower-cased phrase
\* (m[2] || m[0]), in the order of first occurrence, with its number of
\* occurrences.
Tally(ms) ==
  LET phraseOf(k) == ToLowerCase(ms[k].g)
      firsts == {k \in 1..Len(ms) : \A j \in 1..(k - 1) : phraseOf(j) # phraseOf(k)}
      nth(r) == CHOOSE k \in firsts : Cardinality({j \in firsts : j < k}) = r - 1
  IN [r \in 1..Cardinality(firsts) |->
        [phrase |-> phraseOf(nth(r)),
         count  |-> Cardinality({j \in 1..Len(ms) : phraseOf(j) = phraseOf(nth(r))})]]

\* countInText(text, regex): the loop runs on a copy of the regular
\* expression, new RegExp(regex.source, regex.flags), whose lastIndex is 0
countInText(t, words) ==
  Tally(ExecLoop([i \in 0..(Len(t) - 1) |-> PhraseMatchAt(t, i, words)], Len(t)))

RECURSIVE SumCounts(_, _)
SumCounts(counts, k) ==
  IF k > Len(counts) THEN 0 ELSE counts[k].count + SumCounts(counts, k + 1)

\* a / b in JavaScript: a fraction, or Infinity or NaN when b is 0
JsDivide(a, b) ==
  IF b # 0 THEN [kind |-> "finite", num |-> a, den |-> b]
  ELSE IF a = 0 THEN [kind |-> "NaN", num |-> 0, den |-> 0]
  ELSE [kind |-> "Infinity", num |-> a, den |-> 0]

\* ConditionalRatio without the guard on definitiveTotal
ConditionalRatioUnguarded(conditionalTotal, definitiveTotal) ==
  JsDivide(conditionalTotal, definitiveTotal)

\* const ratio = definitiveTotal > 0 ? conditionalTotal / definitiveTotal : 0;
ConditionalRatio(conditionalTotal, definitiveTotal) ==
  IF definitiveTotal > 0 THEN JsDivide(conditionalTotal, definitiveTotal)
  ELSE [kind |-> "finite", num |-> 0, den |-> 1]

(***************************************************************************)
(* deriveObservation                                                       *)
(***************************************************************************)

HeavyConditionalMin == 50
ModerateConditionalMin == 20
VagueExcerptMin == 100
BriefWordsMax == 200
AvgWordsMin == 500
ExtensiveWordsMin == 3000

ObsHeavy == "Heavy use of conditional phrasing (may, could, might) throughout."
ObsModerate == "Moderate conditional phrasing."
ObsVague == "No specific allocation percentages quoted; unusually vague relative to typical disclosures."
ObsSpecific == "Specific dollar amounts or allocation described in the filing."
ObsBrief == "Unusually brief relative to other sections."
ObsExtensive == "Extensive disclosure in this section."
ObsNeutral == "Verbatim from the Prospectus. Length and structure mechanically reported below."

\* /\d+\s*%|percent|allocation/i.test(content)
HasPercentages(content) ==
  \E i \in 0..(Len(content) - 1) :
    \/ IsDigit(CharAt(content, i)) /\ CharAt(content, SkipWs(content, i + 1)) = "%"
    \/ LitAt(content, i, "percent", TRUE)
    \/ LitAt(content, i, "allocation", TRUE)

\* /\$\s*[\d,]+|million|proceeds/i.test(content)
HasSpecifics(content) ==
  \E i \in 0..(Len(content) - 1) :
    \/ /\ CharAt(content, i) = "$"
       /\ LET c == CharAt(content, SkipWs(content, i + 1)) IN IsDigit(c) \/ c = ","
    \/ LitAt(content, i, "million", TRUE)
    \/ LitAt(content, i, "proceeds", TRUE)

\* RiskObservation with the second threshold mistyped as 2
RiskObservationLow(conditionalInSection) ==
  IF conditionalInSection > HeavyConditionalMin THEN <<ObsHeavy>>
  ELSE IF conditionalInSection > 2 THEN <<ObsModerate>>
  ELSE <<>>

\* RiskObservation with the first threshold mistyped as 500
RiskObservationHigh(conditionalInSection) ==
  IF conditionalInSection > 500 THEN <<ObsHeavy>>
  ELSE IF conditionalInSection > ModerateConditionalMin THEN <<ObsModerate>>
  ELSE <<>>

\* the sentence pushed for a section whose name includes "risk"
RiskObservation(conditionalInSection) ==
  IF conditionalInSection > HeavyConditionalMin THEN <<ObsHeavy>>
  ELSE IF conditionalInSection > ModerateConditionalMin THEN <<ObsModerate>>
  ELSE <<>>

\* the sentence pushed for a section whose name includes "use of proceeds"
ProceedsObservation(content, excerpt) ==
  IF ~HasPercentages(content) /\ Len(excerpt) > VagueExcerptMin THEN <<ObsVague>>
  ELSE IF HasSpecifics(content) THEN <<ObsSpecific>>
  ELSE <<>>

RECURSIVE TotalWords(_, _)
TotalWords(allSections, k) ==
  IF k > Len(allSections) THEN 0
  ELSE WordCount(allSections[k].content) + TotalWords(allSections, k + 1)

\* observations.join(' ')
RECURSIVE JoinWith(_, _)
JoinWith(xs, sep) ==
  IF xs = <<>> THEN ""
  ELSE IF Len(xs) = 1 THEN xs[1]
  ELSE xs[1] \o sep \o JoinWith(Tail(xs), sep)

\* the observations pushed, in order, when the section has words words and
\* conditionalInSection conditional phrases and the sections totalWords words
Observations(lower, content, excerpt, allSections, words, conditionalInSection, totalWords) ==
  (IF Includes(lower, "risk") THEN RiskObservation(conditionalInSection) ELSE <<>>)
  \o (IF Includes(lower, "use of proceeds") THEN ProceedsObservation(content, excerpt) ELSE <<>>)
  \o (IF words < BriefWordsMax /\ Len(allSections) > 0
          /\ totalWords > AvgWordsMin * Len(allSections)
      THEN <<ObsBrief>> ELSE <<>>)
  \o (IF words > ExtensiveWordsMin THEN <<ObsExtensive>> ELSE <<>>)

\* JoinObservations with the neutral sentence forgotten
JoinObservationsOnly(observations) == JoinWith(observations, " ")

\* observations.length > 0 ? observations.join(' ') : the neutral sentence
JoinObservations(observations) ==
  IF Len(observations) > 0 THEN JoinWith(observations, " ") ELSE ObsNeutral

\* deriveObservation after  content.match(CONDITIONAL), whose value is m
ObservationOf(sectionName, content, excerpt, allSections, m) ==
  [observation |-> JoinObservations(Observations(ToLowerCase(sectionName), content, excerpt,
                                                 allSections, WordCount(content), Len(m.found),
                                                 TotalWords(allSections, 1))),
   lastIndex   |-> m.lastIndex]

\* deriveObservation with the lastIndex li of CONDITIONAL on entry: the
\* observation and the lastIndex on return
deriveObservation(sectionName, content, excerpt, allSections, li) ==
  ObservationOf(sectionName, content, excerpt, allSections,
                StringMatchGlobal(content, ConditionalWords, li))

(***************************************************************************)
(* analyzeProspectus                                                       *)
(***************************************************************************)

\* JavaScript values that may be undefined
JsUndefined == [type |-> "undefined"]
JsNull == [type |-> "null"]
JsString(v) == [type |-> "string", value |-> v]

\* a ?? b with the default forgotten
NullishCoalesceNone(a, b) == a

\* a ?? b
NullishCoalesce(a, b) == IF a.type \in {"undefined", "null"} THEN b ELSE a

\* The replacements of stripHtml on the innerText of the parsed body.  The
\* DOM parser is not modelled: the html argument is given as the innerText
\* it yields.
\* .replace(/\r\n/g, '\n').replace(/\r/g, '\n')
NormalizeNewlines(t) ==
  Build([i \in 0..(Len(t) - 1) |->
           IF CharAt(t, i) = "\r"
           THEN (IF CharAt(t, i + 1) = "\n" THEN "" ELSE "\n")
           ELSE CharAt(t, i)],
        0, Len(t) - 1)

\* .replace(/ +/g, ' ')
CollapseSpaces(t) ==
  Build([i \in 0..(Len(t) - 1) |->
           IF CharAt(t, i) = " " /\ CharAt(t, i - 1) = " " THEN "" ELSE CharAt(t, i)],
        0, Len(t) - 1)

\* .replace(/\n{3,}/g, '\n\n')
CollapseBlankLines(t) ==
  Build([i \in 0..(Len(t) - 1) |->
           IF CharAt(t, i) = "\n" /\ CharAt(t, i - 1) = "\n" /\ CharAt(t, i - 2) = "\n"
           THEN "" ELSE CharAt(t, i)],
        0, Len(t) - 1)

stripHtml(innerText) ==
  Trim(CollapseBlankLines(CollapseSpaces(NormalizeNewlines(innerText))))

\* the sequence xs sorted by the comparator cmp as Array.prototype.sort
\* sorts it (stably): an element goes after those that compare smaller and
\* after the equal ones that precede it
StableSort(xs, cmp(_, _)) ==
  LET n == Len(xs)
      pos(i) == Cardinality({j \in 1..n :
                   cmp(xs[j], xs[i]) < 0 \/ (cmp(xs[j], xs[i]) = 0 /\ j < i)}) + 1
  IN [r \in 1..n |-> xs[CHOOSE i \in 1..n : pos(i) = r]]

\* xs.slice(0, n) of a sequence
Take(xs, n) == IF Len(xs) <= n THEN xs ELSE SubSeq(xs, 1, n)

BriefPct == 3
ExtensivePct == 25
UnderdevelopedWords == 150
MaxBriefingSections == 8
TopPhrases == 10
OverviewMaxLen == 180
SummaryMaxLen == 500
FirstSectionMaxLen == 400
ExcerptMaxLen == 280

\* SectionWordCount with the test for the name of the section left out
SectionWordCountAny(sec, t) ==
  LET words      == WordCount(sec.content)
      totalWords == WordCount(t)
  IN [name  |-> sec.name,
      words |-> words,
      note  |-> IF totalWords > 0 => 100 * words < BriefPct * totalWords
                  THEN JsString("Unusually brief")
                ELSE IF totalWords > 0 /\ 100 * words > ExtensivePct * totalWords
                  THEN JsString("Extensive")
                ELSE JsUndefined]

\* the entry of sectionWordCounts for the span sec; t is the stripped text
SectionWordCount(sec, t) ==
  LET words      == WordCount(sec.content)
      totalWords == WordCount(t)
      isRisk     == Includes(sec.name, "Risk Factors")
  IN [name  |-> sec.name,
      words |-> words,
      \* pct = totalWords > 0 ? (words / totalWords) * 100 : 0, compared exactly
      note  |-> IF isRisk /\ (totalWords > 0 => 100 * words < BriefPct * totalWords)
                  THEN JsString("Unusually brief")
                ELSE IF isRisk /\ totalWords > 0 /\ 100 * words > ExtensivePct * totalWords
                  THEN JsString("Extensive")
                ELSE JsUndefined]

expectedSections ==
  <<"Risk Factors", "Use of Proceeds", "Business", "Capitalization", "Dilution", "Underwriting">>

\* NotablyUnderdeveloped with the last matching span taken for the first
RECURSIVE NotablyUnderdevelopedLast(_, _)
NotablyUnderdevelopedLast(sections, k) ==
  IF k > Len(expectedSections) THEN <<>>
  ELSE LET expected == expectedSections[k]
           found    == {j \in 1..Len(sections) :
                          Includes(ToUpperCase(sections[j].name), ToUpperCase(expected))}
           words    == WordCount(sections[Max(found)].content)
       IN (IF found = {}
           THEN << [section |-> expected, note |-> "Not located as a distinct section in the filing.",
                    words |-> -1] >>
           ELSE IF words < UnderdevelopedWords
           THEN << [section |-> expected, note |-> "Present but brief", words |-> words] >>
           ELSE <<>>)
          \o NotablyUnderdevelopedLast(sections, k + 1)

\* "Present but brief (N words)." is kept as the number of words
RECURSIVE NotablyUnderdeveloped(_, _)
NotablyUnderdeveloped(sections, k) ==
  IF k > Len(expectedSections) THEN <<>>
  ELSE LET expected == expectedSections[k]
           found    == {j \in 1..Len(sections) :
                          Includes(ToUpperCase(sections[j].name), ToUpperCase(expected))}
           words    == WordCount(sections[Min(found)].content)
       IN (IF found = {}
           THEN << [section |-> expected, note |-> "Not located as a distinct section in the filing.",
                    words |-> -1] >>
           ELSE IF words < UnderdevelopedWords
           THEN << [section |-> expected, note |-> "Present but brief", words |-> words] >>
           ELSE <<>>)
          \o NotablyUnderdeveloped(sections, k + 1)

priorityOrder ==
  <<"Use of Proceeds", "Risk Factors", "Prospectus Summary", "Offering", "Our Business",
    "Underwriting", "Capitalization", "Dilution">>

\* priorityOrder.findIndex((p) => name.includes(p) || p.includes(name)), 0-based
PriorityIndex(name) ==
  LET hits == {k \in 1..Len(priorityOrder) :
                 Includes(name, priorityOrder[k]) \/ Includes(priorityOrder[k], name)}
  IN IF hits = {} THEN -1 ELSE Min(hits) - 1

\* sortByRelevance with every pair of sections compared as equal
sortByRelevanceNone(a, b) == 0

sortByRelevance(a, b) ==
  LET ai == PriorityIndex(a.name)
      bi == PriorityIndex(b.name)
  IN IF ai >= 0 /\ bi >= 0 THEN ai - bi
     ELSE IF ai >= 0 THEN -1
     ELSE IF bi >= 0 THEN 1
     ELSE 0

\* briefingSections.push of the section sec with its excerpt and observation
PushSection(acc, sec, excerpt, obs) ==
  [sections  |-> Append(acc.sections,
                        [heading  |-> sec.name,
                         excerpts |-> << [quote |-> excerpt, observation |-> obs.observation] >>]),
   lastIndex |-> obs.lastIndex]

\* the body of the loop after  const excerpt = extractSubstantiveExcerpt(...)
BriefSection(acc, sec, sections, excerpt) ==
  IF excerpt = "" THEN acc
  ELSE PushSection(acc, sec, excerpt,
                   deriveObservation(sec.name, sec.content, excerpt, sections, acc.lastIndex))

\* the loop that fills briefingSections, from the k-th of the sections taken;
\* acc holds the briefingSections so far and the lastIndex of CONDITIONAL
RECURSIVE BriefingLoop(_, _, _, _)
BriefingLoop(taken, sections, k, acc) ==
  IF k > Len(taken) THEN acc
  ELSE BriefingLoop(taken, sections, k + 1,
                    BriefSection(acc, taken[k], sections,
                                 extractSubstantiveExcerpt(taken[k].content, ExcerptMaxLen)))

\* the briefingSections of the sections taken; li is the lastIndex of
\* CONDITIONAL on entry
BriefingSections(taken, sections, li) ==
  BriefingLoop(taken, sections, 1, [sections |-> <<>>, lastIndex |-> li])

IsDigitOrComma(c) == IsDigit(c) \/ c = ","

\* rawText.match(/\$\s*[\d,]+(?:\s*million|\s*billion)?/i): the text of the
\* first match, or "" when there is none
OfferingSize(rawText) ==
  LET hits == {i \in 0..(Len(rawText) - 1) :
                 /\ CharAt(rawText, i) = "$"
                 /\ IsDigitOrComma(CharAt(rawText, SkipWs(rawText, i + 1)))}
      i  == Min(hits)
      e1 == SkipWhile(IsDigitOrComma, rawText, SkipWs(rawText, i + 1))
      r  == SkipWs(rawText, e1)
      e2 == IF LitAt(rawText, r, "million", TRUE) \/ LitAt(rawText, r, "billion", TRUE)
            THEN r + 7 ELSE e1
  IN IF hits = {} THEN "" ELSE Slice(rawText, i, e2)

\* /summary|prospectus summary|offering/i.test(name)
IsSummaryName(name) ==
  Includes(ToLowerCase(name), "summary") \/ Includes(ToLowerCase(name), "offering")

\* overviewParts.join(' ').trim()
OverviewOf(offeringSize, firstSentence, m) ==
  Trim(JoinWith((IF offeringSize # ""
                 THEN << "This " \o m.formType \o " prospectus describes an offering of approximately "
                         \o offeringSize \o "." >>
                 ELSE <<>>)
                \o (IF firstSentence # "" THEN <<firstSentence>> ELSE <<>>)
                \o << "Key excerpts below are verbatim from the filing." >>,
                " "))

\* the first section whose name is a summary name, or 0
SummarySection(sections) ==
  LET found == {j \in 1..Len(sections) : IsSummaryName(sections[j].name)}
  IN IF found = {} THEN 0 ELSE Min(found)

Overview(rawText, sections, m) ==
  OverviewOf(OfferingSize(rawText),
             IF SummarySection(sections) = 0 THEN ""
             ELSE extractSubstantiveExcerpt(sections[SummarySection(sections)].content, OverviewMaxLen),
             m)

Summary(sections) ==
  IF SummarySection(sections) # 0
  THEN extractSubstantiveExcerpt(sections[SummarySection(sections)].content, SummaryMaxLen)
  ELSE IF Len(sections) > 0 THEN extractSubstantiveExcerpt(sections[1].content, FirstSectionMaxLen)
  ELSE ""

\* byCountDescending with the operands exchanged
byCountAscending(a, b) == a.count - b.count

byCountDescending(a, b) == b.count - a.count

\* the value returned once the constants of analyzeProspectus are known:
\* the briefing, the local sections and the lastIndex left behind
Briefing(rawText, t, sections, conditionalCounts, definitive, brief, m, now) ==
  [briefing |->
     [companyName   |-> m.companyName,
      formType      |-> m.formType,
      prospectusUrl |-> NullishCoalesce(m.prospectusUrl, JsString("")),
      generatedAt   |-> now,
      overview      |-> Overview(rawText, sections, m),
      summary       |-> Summary(sections),
      sections      |-> brief.sections,
      metrics       |->
        [conditionalPhrases |-> Take(StableSort(conditionalCounts, byCountDescending), TopPhrases),
         conditionalTotal   |-> SumCounts(conditionalCounts, 1),
         definitiveTotal    |-> Len(definitive.found),
         conditionalRatio   |-> ConditionalRatio(SumCounts(conditionalCounts, 1),
                                                 Len(definitive.found)),
         sectionWordCounts  |-> [k \in 1..Len(sections) |-> SectionWordCount(sections[k], t)],
         notablyUnderdeveloped |-> NotablyUnderdeveloped(sections, 1)]],
   sections  |-> sections,
   lastIndex |-> [CONDITIONAL |-> brief.lastIndex, DEFINITIVE |-> definitive.lastIndex]]

\* analyzeProspectus after  const sections = extractSections(rawText)
AnalyzeSections(rawText, t, sections, m, li, now) ==
  Briefing(rawText, t, sections,
           countInText(t, ConditionalWords),
           StringMatchGlobal(t, DefinitiveWords, li.DEFINITIVE),
           BriefingSections(Take(StableSort(sections, sortByRelevance), MaxBriefingSections),
                            sections, li.CONDITIONAL),
           m, now)

\* analyzeProspectus after  const rawText = stripHtml(html)
AnalyzeText(rawText, m, li, now) ==
  AnalyzeSections(rawText, stripBoilerplate(rawText), extractSections(rawText), m, li, now)

\* analyzeProspectus(html, meta) called when the lastIndex of the module's
\* regular expressions is li and the clock shows now: the briefing returned,
\* the local sections and the lastIndex left behind.  offeringDetails, a
\* function of rawText alone computed with regular expressions local to the
\* call, is left out.
analyzeProspectus(innerText, m, li, now) == AnalyzeText(stripHtml(innerText), m, li, now)

(***************************************************************************)
(* Inputs: texts put together from a few kinds of lines and paragraphs     *)
(***************************************************************************)

\* s repeated n times
RECURSIVE Rep(_, _)
Rep(s, n) ==
  IF n <= 0 THEN "" ELSE IF n = 1 THEN s
  ELSE Rep(s, n \div 2) \o Rep(s, n - n \div 2)

RECURSIVE Join(_)
Join(bs) == IF bs = <<>> THEN "" ELSE Head(bs) \o Join(Tail(bs))

\* the texts made of at most n blocks of B
Texts(B, n) == {Join(bs) : bs \in UNION {[1..k -> B] : k \in 0..n}}

\* an 86-character sentence with no heading, no conditional and no definitive word
Sentence == "The company designs and sells widgets to customers in many markets across the world. "

SectionBlocks ==
  { "Table of Contents\n",
    "Acme Holdings Inc Risk Factors\n",
    "Risk Factors\n",
    "Item 7. Use of Proceeds:\n",
    "RISK FACTORS\n",
    Rep(Sentence, 2) \o "\n",
    Rep(Sentence, 6) \o "\n\n",
    "Use of Proceeds\n" \o Rep(Sentence, 2) \o "\n",
    "Offering:\n",
    "We sell widgets.\n" }

MaxBlocks == 3

SectionInputs == Texts(SectionBlocks, MaxBlocks)

NoMeta == [companyName |-> "", formType |-> "", prospectusUrl |-> JsUndefined]

MIN_REQUEST_INTERVAL_MS == 150

\* Date.now() when the proxy starts serving, the granularity of the clock
\* and the last instant looked at, in ms
StartTime == 1000
TickMs == 50
MaxTime == 1400

\* the number of rateLimitedFetch calls looked at
MaxCallers == 3

InitRate ==
  /\ time = StartTime
  /\ lastRequestTime = 0
  /\ callers = <<>>
  /\ requests = <<>>

\* the number of clicks on Generate Briefing looked at
MaxClicks == 3

InitCard ==
  /\ briefing = JsNull
  /\ isLoading = FALSE
  /\ handler = [pc |-> "idle", run |-> 0, cik |-> "", accessionNumber |-> "", last |-> "none"]
  /\ errors = <<>>
  /\ fetches = <<>>

InitService ==
  /\ svcPc = "idle"
  /\ dateFrom = ""
  /\ dateTo = ""
  /\ searchList = <<>>
  /\ rssList = <<>>
  /\ sent = <<>>
  /\ outcomes = <<>>
  /\ returned = <<>>

InitAnalysis ==
  /\ pc = "idle"
  /\ op = "none"
  /\ text = ""
  /\ maxLen = 0
  /\ meta = NoMeta
  /\ result = <<>>
  /\ spans = <<>>
  /\ lastIndex = [CONDITIONAL |-> 0, DEFINITIVE |-> 0]
  /\ clock = 0
  /\ calls = <<>>

InitObservation ==
  /\ obsName = ""
  /\ obsExcerpt = ""
  /\ obsSections = <<>>

InitProxy ==
  /\ apiPc = "idle"
  /\ apiReq = [handler |-> "", method |-> "", cik |-> JsUndefined, accession |-> JsUndefined]
  /\ apiStatus = 0
  /\ apiOutbound = <<>>

InitLink ==
  /\ mounted = FALSE
  /\ linkProps = [cik |-> "", accessionNumber |-> "", primaryDocument |-> JsUndefined]
  /\ url = JsNull
  /\ urlFrom = <<>>
  /\ linkEffects = <<>>
  /\ renders = 0

InitHook ==
  /\ filings = <<>>
  /\ recentFilings = <<>>
  /\ hookLoading = TRUE
  /\ error = JsNull
  /\ dataSource = "loading"
  /\ lastUpdated = 0
  /\ hookArgs = [daysBack |-> 30, sectorFilter |-> "all"]
  /\ fetchRuns = <<>>

Init ==
  /\ InitAnalysis /\ InitRate /\ InitCard /\ InitService /\ InitObservation
  /\ InitProxy /\ InitLink /\ InitHook

\* a call extractSections(t)
CallExtractSections ==
  /\ pc = "idle"
  /\ \E t \in SectionInputs :
       /\ text' = t
       /\ result' = extractSections(t)
  /\ op' = "extractSections"
  /\ pc' = "done"
  /\ UNCHANGED <<maxLen, meta, spans, lastIndex, clock, calls>>
  /\ UNCHANGED <<rateVars, cardVars, serviceVars, obsVars, proxyVars, linkVars, hookVars>>

NextSections == CallExtractSections

SpecSections == Init /\ [][NextSections]_vars

ExcerptBlocks ==
  { Sentence,
    "\n\n",
    "Net proceeds are used for\nworking capital  and general\n purposes ",
    Rep("lorem ipsum ", 30),
    "$5,000 million of notes were issued by the company to investors last year.\n\n",
    "Widgets are sold in shops in many towns today.\n \n",
    "Table of Contents\n" }

ExcerptMaxLens == {0, 100, 180, 280, 400, 500}

ExcerptInputs == Texts(ExcerptBlocks, MaxBlocks)

\* a call extractSubstantiveExcerpt(content, maxLen)
CallExtractSubstantiveExcerpt ==
  /\ pc = "idle"
  /\ \E t \in ExcerptInputs, m \in ExcerptMaxLens :
       /\ text' = t
       /\ maxLen' = m
       /\ result' = extractSubstantiveExcerpt(t, m)
  /\ op' = "extractSubstantiveExcerpt"
  /\ pc' = "done"
  /\ UNCHANGED <<meta, spans, lastIndex, clock, calls>>
  /\ UNCHANGED <<rateVars, cardVars, serviceVars, obsVars, proxyVars, linkVars, hookVars>>

NextExcerpt == CallExtractSubstantiveExcerpt

SpecExcerpt == Init /\ [][NextExcerpt]_vars

\* 600 words holding 60 conditional phrases
HeavyProse == Rep("we may go up or on as it is. ", 60)

AnalysisBlocks ==
  { "Prospectus Summary\n",
    "Risk Factors\n" \o HeavyProse \o "\n",
    "Use of Proceeds\nWe intend to use the net proceeds for working capital and general corporate purposes.\n\n"
      \o Sentence \o "\n",
    "Use of Proceeds\n" \o Rep(Sentence, 2) \o "\n",
    "Use of Proceeds\nWe will  allocate 40% of the net proceeds, or $ 12,500 million, to research.   "
      \o Rep(Sentence, 2) \o "\r\n\r\n\r\n\r\n",
    "Business\nWe have operated stores since 1990 and we do provide services to customers. "
      \o Sentence \o "We expect growth.\n",
    "Table of Contents\n",
    Rep(Sentence, 6) \o "\n" }

MetaInputs ==
  { [companyName |-> "Acme", formType |-> "S-1", prospectusUrl |-> JsUndefined],
    [companyName |-> "Acme", formType |-> "424B4",
     prospectusUrl |-> JsString("https://www.sec.gov/Archives/edgar/data/1/p.htm")] }

MaxDocBlocks == 2

AnalysisInputs == Texts(AnalysisBlocks, MaxDocBlocks)

\* a call analyzeProspectus(html, m), html being a page whose body text is t
AnalyzeStep(t, m) ==
  \E out \in {analyzeProspectus(t, m, lastIndex, clock)} :
     /\ text' = t
     /\ meta' = m
     /\ result' = out.briefing
     /\ spans' = out.sections
     /\ lastIndex' = out.lastIndex
     /\ clock' = clock + 1
     /\ calls' = Append(calls, [text |-> t, meta |-> m, briefing |-> out.briefing,
                                lastIndex |-> out.lastIndex])
     /\ op' = "analyzeProspectus"
     /\ pc' = "done"
     /\ UNCHANGED <<maxLen, rateVars, cardVars, serviceVars, obsVars, proxyVars, linkVars, hookVars>>

CallAnalyzeProspectus ==
  /\ pc = "idle"
  /\ \E t \in AnalysisInputs, m \in MetaInputs : AnalyzeStep(t, m)

Next == CallAnalyzeProspectus

Spec == Init /\ [][Next]_vars

\* a sentence with every alternative of CONDITIONAL, "may" twice
AllConditionals ==
  "Investors may lose money. We may might could would should intend expect believe "
    \o "anticipate seek plan and aim.\n"

\* 1100 words of prose under no heading
LongProse == Rep("up ", 1100) \o "\n"

\* documents for the metrics of analyzeProspectus
MetricsBlocks ==
  { AllConditionals,
    LongProse,
    Rep(Sentence, 8) \o "\nRisk Factors\n" \o Rep(Sentence, 2) \o "\n",
    "Risk Factors\n" \o HeavyProse \o "\n",
    "Use of Proceeds\n" \o Rep(Sentence, 2) \o "\n",
    "Business\nWe have operated stores since 1990 and we do provide services to customers. "
      \o Sentence \o "We expect growth.\n",
    "Dilution\n" \o Rep(Sentence, 11) \o "\n" }

MetricsInputs == Texts(MetricsBlocks, MaxDocBlocks)

CallAnalyzeProspectusMetrics ==
  /\ pc = "idle"
  /\ \E t \in MetricsInputs, m \in MetaInputs : AnalyzeStep(t, m)

NextMetrics == CallAnalyzeProspectusMetrics

SpecMetrics == Init /\ [][NextMetrics]_vars

\* lines that are boilerplate, short metadata, blank, neither, substantive,
\* and substantive behind a dollar amount; 48 and 50 short lines
StripBlocks ==
  { "Table of Contents\n",
    "333-123456\n",
    "\n",
    "Acme Holdings Inc\n",
    Sentence \o "\n",
    "$5,000 million of notes were issued by the company to investors in the course of last year.\n",
    Rep("x\n", 48),
    Rep("x\n", 50) }

StripInputs == Texts(StripBlocks, MaxBlocks)

\* a call stripBoilerplate(t)
CallStripBoilerplate ==
  /\ pc = "idle"
  /\ \E t \in StripInputs :
       /\ text' = t
       /\ result' = stripBoilerplate(t)
  /\ op' = "stripBoilerplate"
  /\ pc' = "done"
  /\ UNCHANGED <<maxLen, meta, spans, lastIndex, clock, calls>>
  /\ UNCHANGED <<rateVars, cardVars, serviceVars, obsVars, proxyVars, linkVars, hookVars>>

NextStrip == CallStripBoilerplate

SpecStrip == Init /\ [][NextStrip]_vars

ObservationNames == {"Risk Factors", "Use of Proceeds", "Our Business", "Legal Matters"}

\* contents with 19, 20, 21, 50 and 51 conditional phrases, with and without
\* allocation language, and of 3000 and 3001 words
ObservationContents ==
  { Rep("we may go. ", 19), Rep("we may go. ", 20), Rep("we may go. ", 21),
    Rep("we may go. ", 50), Rep("we may go. ", 51),
    "We will use 40% of it for research.",
    "We will use $5 million for research.",
    "We keep it for research and growth.",
    Rep("up ", 2999) \o "up",
    Rep("up ", 3000) \o "up" }

ObservationExcerpts == { "We keep it.", Rep(Sentence, 2) }

ObservationSectionLists ==
  { <<>>,
    << [name |-> "Legal Matters", content |-> "We keep it for research and growth."] >>,
    << [name |-> "Our Business", content |-> Rep("up ", 1100)],
       [name |-> "Legal Matters", content |-> "We keep it for research and growth."] >> }

\* a call deriveObservation(name, content, exc, all)
DeriveStep(name, content, exc, all) ==
  \E out \in {deriveObservation(name, content, exc, all, lastIndex.CONDITIONAL)} :
     /\ obsName' = name
     /\ text' = content
     /\ obsExcerpt' = exc
     /\ obsSections' = all
     /\ result' = out.observation
     /\ lastIndex' = [lastIndex EXCEPT !.CONDITIONAL = out.lastIndex]
     /\ op' = "deriveObservation"
     /\ pc' = "done"
     /\ UNCHANGED <<maxLen, meta, spans, clock, calls>>
     /\ UNCHANGED <<rateVars, cardVars, serviceVars, proxyVars, linkVars, hookVars>>

CallDeriveObservation ==
  /\ pc = "idle"
  /\ \E name \in ObservationNames, content \in ObservationContents,
        exc \in ObservationExcerpts, all \in ObservationSectionLists :
       DeriveStep(name, content, exc, all)

NextObservation == CallDeriveObservation

SpecObservation == Init /\ [][NextObservation]_vars

\* a section of two sentences under the heading h
Headed(h) == h \o "\n" \o Rep(Sentence, 2) \o "\n"

\* documents with many sections, for the sections of the briefing
BriefingBlocks ==
  { Headed("Legal Matters") \o Headed("Risk Factors") \o Headed("Experts"),
    Headed("Dilution") \o Headed("Description of Securities") \o Headed("Use of Proceeds")
      \o Headed("Underwriting") \o Headed("Where You Can Find"),
    Headed("Our Business") \o Headed("Offering") \o Headed("Prospectus Summary")
      \o Headed("Capitalization") \o Headed("Selected Financial"),
    Headed("Risk Factors"),
    Headed("prospectus summary"),
    Headed("Underwriting"),
    Rep(Sentence, 7) \o "\n" }

BriefingInputs == Texts(BriefingBlocks, MaxDocBlocks)

CallAnalyzeProspectusBriefing ==
  /\ pc = "idle"
  /\ \E t \in BriefingInputs, m \in MetaInputs : AnalyzeStep(t, m)

NextBriefing == CallAnalyzeProspectusBriefing

SpecBriefing == Init /\ [][NextBriefing]_vars

(***************************************************************************)
(* Several calls of analyzeProspectus made one after the other by the same *)
(* page, which share the module-level regular expressions                  *)
(***************************************************************************)

MaxCalls == 2

CallTexts ==
  { "Risk Factors\nWe may have to do it. We could operate stores and we expect to provide "
      \o "services. " \o Rep(Sentence, 2) \o "\n",
    "We have operated stores since 1990. " \o Sentence \o "\n",
    Rep(Sentence, 6) \o "We may grow.\n",
    "We sell widgets.\n" }

\* one more call, as long as the page has made fewer than MaxCalls
CallAgain ==
  /\ pc = "idle"
  /\ Len(calls) < MaxCalls
  /\ \E t \in CallTexts, m \in MetaInputs : AnalyzeStep(t, m)

\* the caller takes the briefing and is free to call again
Return ==
  /\ pc = "done"
  /\ pc' = "idle"
  /\ UNCHANGED <<op, text, maxLen, meta, result, spans, lastIndex, clock, calls>>
  /\ UNCHANGED <<rateVars, cardVars, serviceVars, obsVars, proxyVars, linkVars, hookVars>>

NextCalls == CallAgain \/ Return

SpecCalls == Init /\ [][NextCalls]_vars

(***************************************************************************)
(* rateLimitedFetch of the SEC proxy.  Each call reads the clock and        *)
(* lastRequestTime, and either calls fetch at once or sets a timer for the *)
(* rest of the interval; lastRequestTime is written when fetch is called.  *)
(* A timer never fires early and may fire late.                            *)
(***************************************************************************)

\* lastRequestTime = Date.now(); fetch(url, ...) by call c
DoFetch(c) ==
  /\ lastRequestTime' = time
  /\ requests' = Append(requests, time)
  /\ callers' = [callers EXCEPT ![c].pc = "fetched"]

\* a call rateLimitedFetch(url, init) enters
EnterRateLimitedFetch ==
  /\ Len(callers) < MaxCallers
  /\ LET c       == Len(callers) + 1
         now     == time
         elapsed == now - lastRequestTime
     IN IF elapsed < MIN_REQUEST_INTERVAL_MS
        THEN /\ callers' = Append(callers,
                                  [pc |-> "waiting",
                                   wakeAt |-> now + (MIN_REQUEST_INTERVAL_MS - elapsed)])
             /\ UNCHANGED <<lastRequestTime, requests>>
        ELSE /\ lastRequestTime' = time
             /\ requests' = Append(requests, time)
             /\ callers' = Append(callers, [pc |-> "fetched", wakeAt |-> now])
  /\ UNCHANGED <<time, analysisVars, cardVars, serviceVars, obsVars, proxyVars, linkVars, hookVars>>

\* the timer of a waiting call fires and the call goes on to fetch
TimerFires ==
  /\ \E c \in 1..Len(callers) :
       /\ callers[c].pc = "waiting"
       /\ time >= callers[c].wakeAt
       /\ DoFetch(c)
  /\ UNCHANGED <<time, analysisVars, cardVars, serviceVars, obsVars, proxyVars, linkVars, hookVars>>

\* the clock advances
Tick ==
  /\ time + TickMs <= MaxTime
  /\ time' = time + TickMs
  /\ UNCHANGED <<lastRequestTime, callers, requests, analysisVars, cardVars, serviceVars, obsVars, proxyVars, linkVars, hookVars>>

NextRate == EnterRateLimitedFetch \/ TimerFires \/ Tick

SpecRate == Init /\ [][NextRate]_vars

(***************************************************************************)
(* generateBriefing of the briefing card.  The button that starts it is    *)
(* shown while briefing is null and is disabled while isLoading; both      *)
(* pages that show the card pass onError.                                  *)
(***************************************************************************)

CikInputs == {"", "0001234567"}
AccessionInputs == {"", "0001234567-26-000001"}

\* what a rejected fetch, a failed body read or a throwing analysis carries
ExceptionMessages == {"Failed to fetch", "Cannot read properties"}

\* the error field of the JSON body of a non-OK answer; "" when the body
\* has none or is not JSON
ErrorBodies == {"", "Prospectus not found"}
StatusInputs == {"404", "502"}

\* onError?.(msg) with the onError the pages pass
OnError(msg) == errors' = Append(errors, [run |-> handler.run, msg |-> msg])

\* CatchFinally with setIsLoading(false) left to the success path
CatchWithoutFinally(msg) ==
  /\ OnError(msg)
  /\ briefing' = JsNull
  /\ handler' = [handler EXCEPT !.pc = "idle", !.last = "failed"]
  /\ UNCHANGED <<isLoading, fetches>>

\* catch (e) { onError?.(...); setBriefing(null); } finally { setIsLoading(false); }
CatchFinally(msg) ==
  /\ OnError(msg)
  /\ briefing' = JsNull
  /\ isLoading' = FALSE
  /\ handler' = [handler EXCEPT !.pc = "idle", !.last = "failed"]
  /\ UNCHANGED fetches

\* a click on Generate Briefing: the guard on the props, then the request
ClickGenerate ==
  /\ handler.pc = "idle"
  /\ briefing = JsNull
  /\ ~isLoading
  /\ handler.run < MaxClicks
  /\ \E cik \in CikInputs, accessionNumber \in AccessionInputs :
       IF accessionNumber = "" \/ cik = ""
       THEN /\ errors' = Append(errors, [run |-> handler.run + 1,
                                          msg |-> "Missing accession number or CIK"])
            /\ handler' = [pc |-> "idle", run |-> handler.run + 1, cik |-> cik,
                           accessionNumber |-> accessionNumber, last |-> "failed"]
            /\ UNCHANGED <<briefing, isLoading, fetches>>
       ELSE /\ isLoading' = TRUE
            /\ briefing' = JsNull
            /\ fetches' = Append(fetches, [cik |-> cik, accessionNumber |-> accessionNumber])
            /\ handler' = [pc |-> "fetching", run |-> handler.run + 1, cik |-> cik,
                           accessionNumber |-> accessionNumber, last |-> "none"]
            /\ UNCHANGED errors
  /\ UNCHANGED <<analysisVars, rateVars, serviceVars, obsVars, proxyVars, linkVars, hookVars>>

\* await fetch(...) rejects
FetchRejected ==
  /\ handler.pc = "fetching"
  /\ \E msg \in ExceptionMessages : CatchFinally(msg)
  /\ UNCHANGED <<analysisVars, rateVars, serviceVars, obsVars, proxyVars, linkVars, hookVars>>

\* the answer is not OK: throw new Error(err.error || `Fetch failed: ${res.status}`)
ResponseNotOk ==
  /\ handler.pc = "fetching"
  /\ \E err \in ErrorBodies, status \in StatusInputs :
       CatchFinally(IF err # "" THEN err ELSE "Fetch failed: " \o status)
  /\ UNCHANGED <<analysisVars, rateVars, serviceVars, obsVars, proxyVars, linkVars, hookVars>>

\* the answer is OK: the body is read and the analyzer imported
ResponseOk ==
  /\ handler.pc = "fetching"
  /\ handler' = [handler EXCEPT !.pc = "analyzing"]
  /\ UNCHANGED <<briefing, isLoading, errors, fetches, analysisVars, rateVars, serviceVars, obsVars, proxyVars, linkVars, hookVars>>

\* res.text(), the import or analyzeProspectus throws
AnalysisThrows ==
  /\ handler.pc = "analyzing"
  /\ \E msg \in ExceptionMessages : CatchFinally(msg)
  /\ UNCHANGED <<analysisVars, rateVars, serviceVars, obsVars, proxyVars, linkVars, hookVars>>

\* setBriefing(b), then finally setIsLoading(false)
AnalysisReturns ==
  /\ handler.pc = "analyzing"
  /\ briefing' = [type |-> "briefing", cik |-> handler.cik,
                  accessionNumber |-> handler.accessionNumber]
  /\ isLoading' = FALSE
  /\ handler' = [handler EXCEPT !.pc = "idle", !.last = "succeeded"]
  /\ UNCHANGED <<errors, fetches, analysisVars, rateVars, serviceVars, obsVars, proxyVars, linkVars, hookVars>>

NextCard ==
  \/ ClickGenerate
  \/ FetchRejected
  \/ ResponseNotOk
  \/ ResponseOk
  \/ AnalysisThrows
  \/ AnalysisReturns

SpecCard == Init /\ [][NextCard]_vars

(***************************************************************************)
(* The filing service: fetchRecentS1Filings (sec-filing-service.ts)        *)
(***************************************************************************)

\* the characters of dates and times in the order of their code units
CodeOrder == "-0123456789:T"

CharCode(c) == CHOOSE k \in 1..Len(CodeOrder) : SubSeq(CodeOrder, k, k) = c

\* a <= b for JavaScript strings: the first code unit that differs decides,
\* and a prefix comes before the longer string
RECURSIVE StrLeq(_, _)
StrLeq(a, b) ==
  IF a = "" THEN TRUE
  ELSE IF b = "" THEN FALSE
  ELSE IF CharAt(a, 0) = CharAt(b, 0) THEN StrLeq(SliceFrom(a, 1), SliceFrom(b, 1))
  ELSE CharCode(CharAt(a, 0)) < CharCode(CharAt(b, 0))

IsoDateLen == 10

\* isDateInRange with the upper end of the range forgotten
isDateInRangeFrom(dateStr, from, to) ==
  IF dateStr = "" \/ Len(dateStr) < IsoDateLen THEN FALSE
  ELSE StrLeq(from, Slice(dateStr, 0, IsoDateLen))

isDateInRange(dateStr, from, to) ==
  IF dateStr = "" \/ Len(dateStr) < IsoDateLen THEN FALSE
  ELSE /\ StrLeq(from, Slice(dateStr, 0, IsoDateLen))
       /\ StrLeq(Slice(dateStr, 0, IsoDateLen), to)

\* s.padStart(n, c) for a one-character c
RECURSIVE PadStart(_, _, _)
PadStart(s, n, c) == IF Len(s) >= n THEN s ELSE PadStart(c \o s, n, c)

CikLen == 10

\* a || b for a JSON value a that is a string or absent
OrElse(a, b) == IF a.type = "string" /\ a.value # "" THEN a.value ELSE b

\* a ?? b for a JSON value a that is a string or absent
OrDefault(a, b) == IF a.type = "string" THEN a.value ELSE b

\* the filing pushed for a hit of the search, or <<>> when the hit is skipped
FilingOfHit(hit) ==
  IF ~hit.hasSource THEN <<>>
  ELSE IF OrElse(hit.cik, "") = "" THEN <<>>
  ELSE << [id              |-> PadStart(hit.cik.value, CikLen, "0") \o "-"
                                 \o OrElse(hit.accession_number, OrDefault(hit.file_date, "")),
           cik             |-> PadStart(hit.cik.value, CikLen, "0"),
           companyName     |-> OrElse(hit.display_name, "Unknown"),
           filingDate      |-> OrDefault(hit.file_date, ""),
           formType        |-> OrDefault(hit.form, "S-1"),
           accessionNumber |-> OrDefault(hit.accession_number, "")] >>

\* the loop of fetchViaSearch over the hits
RECURSIVE FilingsOfHits(_)
FilingsOfHits(hits) ==
  IF hits = <<>> THEN <<>> ELSE FilingOfHit(Head(hits)) \o FilingsOfHits(Tail(hits))

\* the filing that fetchViaRecentS1 makes of an entry of the feed
FilingOfEntry(f) ==
  [id              |-> PadStart(OrElse(f.cik, ""), CikLen, "0") \o "-"
                         \o OrElse(f.accessionNumber, OrElse(f.filingDate, "")),
   cik             |-> PadStart(OrElse(f.cik, ""), CikLen, "0"),
   companyName     |-> OrElse(f.companyName, "Unknown"),
   filingDate      |-> OrElse(f.filingDate, ""),
   formType        |-> OrElse(f.formType, "S-1"),
   accessionNumber |-> OrElse(f.accessionNumber, "")]

\* xs.filter(keep) on the filing dates: the filings in the date range, in order
RECURSIVE FilterInRange(_, _, _)
FilterInRange(fs, from, to) ==
  IF fs = <<>> THEN <<>>
  ELSE (IF isDateInRange(Head(fs).filingDate, from, to) THEN <<Head(fs)>> ELSE <<>>)
       \o FilterInRange(Tail(fs), from, to)

\* consecutive days, as toISOString().slice(0, 10) writes them
Calendar == <<"2024-01-28", "2024-01-29", "2024-01-30", "2024-01-31", "2024-02-01", "2024-02-02">>

\* getDateRange(daysBack) on the day Calendar[today]
getDateRange(daysBack, today) ==
  [dateFrom |-> Calendar[today - Max({1, daysBack})], dateTo |-> Calendar[today]]

DaysBackInputs == {0, 1, 3}
TodayInputs == {5, 6}

\* the hits of a search response
HitInputs ==
  { [hasSource |-> FALSE, cik |-> JsUndefined, file_date |-> JsUndefined, form |-> JsUndefined,
     accession_number |-> JsUndefined, display_name |-> JsUndefined],
    [hasSource |-> TRUE, cik |-> JsUndefined, file_date |-> JsString("2024-01-31"),
     form |-> JsString("S-1"), accession_number |-> JsString("0001193125-24-000001"),
     display_name |-> JsString("Acme Holdings Inc")],
    [hasSource |-> TRUE, cik |-> JsString("1843724"), file_date |-> JsString("2024-01-31"),
     form |-> JsString("S-1/A"), accession_number |-> JsString("0001193125-24-000002"),
     display_name |-> JsString("Acme Holdings Inc")],
    [hasSource |-> TRUE, cik |-> JsString("77"), file_date |-> JsUndefined,
     form |-> JsUndefined, accession_number |-> JsUndefined, display_name |-> JsUndefined] }

\* the filing dates of the entries of a feed response
FeedDates ==
  { JsString("2024-01-20"), JsString("2024-01-31"), JsString("2024-02-01"),
    JsString("2024-02-02T09:30:00"), JsString("2024-1-31"), JsString(""), JsUndefined }

FeedEntry(d) ==
  [cik |-> JsString("1843724"), companyName |-> JsString("Acme Holdings Inc"), filingDate |-> d,
   formType |-> JsString("S-1"), accessionNumber |-> JsString("0001193125-24-000003")]

\* the number of hits of a search response, and of entries of a feed response
MaxHits == 2

Lists(S, n) == UNION {[1..k -> S] : k \in 0..n}

\* fetchRecentS1Filings(daysBack) up to the request of fetchViaSearch
CallFetchRecentS1Filings ==
  /\ svcPc = "idle"
  /\ \E daysBack \in DaysBackInputs, today \in TodayInputs :
       /\ dateFrom' = getDateRange(daysBack, today).dateFrom
       /\ dateTo' = getDateRange(daysBack, today).dateTo
  /\ sent' = Append(sent, "search")
  /\ svcPc' = "search"
  /\ UNCHANGED <<searchList, rssList, outcomes, returned, analysisVars, rateVars, cardVars, obsVars, proxyVars, linkVars, hookVars>>

\* fetchRecentS1Filings once fetchViaSearch has returned list: the list is
\* returned, or the feed is requested
AfterSearch(list, how) ==
  /\ searchList' = list
  /\ outcomes' = Append(outcomes, how)
  /\ IF Len(list) > 0
     THEN /\ returned' = list
          /\ svcPc' = "done"
          /\ UNCHANGED sent
     ELSE /\ sent' = Append(sent, "recent-s1")
          /\ svcPc' = "feed"
          /\ UNCHANGED returned
  /\ UNCHANGED <<dateFrom, dateTo, rssList, analysisVars, rateVars, cardVars, obsVars, proxyVars, linkVars, hookVars>>

\* the search request is rejected, or reading its body throws: catch, return []
SearchThrows == svcPc = "search" /\ AfterSearch(<<>>, "threw")

\* the search response is not OK: return []
SearchNotOk == svcPc = "search" /\ AfterSearch(<<>>, "not ok")

\* the search response is OK with some hits
SearchOk == svcPc = "search" /\ \E hits \in Lists(HitInputs, MaxHits) : AfterSearch(FilingsOfHits(hits), "ok")

\* fetchRecentS1Filings once fetchViaRecentS1 has returned list
AfterFeed(list, how) ==
  /\ rssList' = list
  /\ outcomes' = Append(outcomes, how)
  /\ returned' = FilterInRange(list, dateFrom, dateTo)
  /\ svcPc' = "done"
  /\ UNCHANGED <<dateFrom, dateTo, searchList, sent, analysisVars, rateVars, cardVars, obsVars, proxyVars, linkVars, hookVars>>

\* the feed request is rejected, or reading its body throws: catch, return []
FeedThrows == svcPc = "feed" /\ AfterFeed(<<>>, "threw")

\* the feed response is not OK: return []
FeedNotOk == svcPc = "feed" /\ AfterFeed(<<>>, "not ok")

\* the feed response is OK with some entries
FeedOk ==
  /\ svcPc = "feed"
  /\ \E ds \in Lists(FeedDates, MaxHits) :
       AfterFeed([k \in 1..Len(ds) |-> FilingOfEntry(FeedEntry(ds[k]))], "ok")

NextService ==
  \/ CallFetchRecentS1Filings
  \/ SearchThrows
  \/ SearchNotOk
  \/ SearchOk
  \/ FeedThrows
  \/ FeedNotOk
  \/ FeedOk

SpecService == Init /\ [][NextService]_vars

(***************************************************************************)
(* The proxy handlers of api/sec: prospectus, prospectus-url, submissions  *)
(***************************************************************************)

\* s.replace(/\D/g, '')
DigitsOnly(s) ==
  Build([i \in 0..(Len(s) - 1) |-> IF IsDigit(CharAt(s, i)) THEN CharAt(s, i) ELSE ""],
        0, Len(s) - 1)

\* s.replace(/-/g, '')
RemoveDashes(s) ==
  Build([i \in 0..(Len(s) - 1) |-> IF CharAt(s, i) = "-" THEN "" ELSE CharAt(s, i)],
        0, Len(s) - 1)

\* s.replace(/^0+/, '')
StripLeadingZeros(s) ==
  LET n == Len(s)
      a == CHOOSE j \in 0..n :
             /\ j = n \/ CharAt(s, j) # "0"
             /\ \A k \in 0..(j - 1) : CharAt(s, k) = "0"
  IN SliceFrom(s, a)

\* String(req.query.cik || '').replace(/\D/g, '').padStart(10, '0')
ProxyCik(q) == PadStart(DigitsOnly(OrElse(q, "")), CikLen, "0")

\* String(req.query.accession || '').trim()
ProxyAccession(q) == Trim(OrElse(q, ""))

\* String(req.query.cik ?? '').replace(/\D/g, '').padStart(10, '0')
SubmissionsPadded(q) == PadStart(DigitsOnly(OrDefault(q, "")), CikLen, "0")

\* cik.replace(/^0+/, '') of the prospectus handler
ProspectusCleanCik(cik) == StripLeadingZeros(cik)

\* cik.replace(/^0+/, '') || cik of the prospectus-url handler
ProspectusUrlCleanCik(cik) ==
  IF StripLeadingZeros(cik) # "" THEN StripLeadingZeros(cik) ELSE cik

\* the URL of the filing index
IndexUrl(cleanCik, accession) ==
  "https://www.sec.gov/Archives/edgar/data/" \o cleanCik \o "/"
    \o RemoveDashes(accession) \o "/" \o accession \o "-index.htm"

\* the URL of the company's submissions
SubmissionsUrl(padded) == "https://data.sec.gov/submissions/CIK" \o padded \o ".json"

\* the requests that arrive
ProxyMethods == {"GET", "POST"}

ProxyCikInputs ==
  {JsUndefined, JsString(""), JsString("abc"), JsString("CIK1318605"), JsString("0002081536")}

ProxyAccessionInputs ==
  {JsUndefined, JsString(""), JsString("  "), JsString("0001213900-26-010324")}

\* what parseIndexForProspectus finds in the index page: null when the page
\* has no link to a document, else the URL of the link it picks
ParsedProspectusUrls ==
  {JsNull, JsString("https://www.sec.gov/Archives/edgar/data/2081536/000121390026010324/ea0271234-424b4.htm")}

\* the statuses of the answers of the SEC that are not OK, and of all answers
SecNotOkStatuses == {403, 404}
SecStatuses == {200} \cup SecNotOkStatuses

\* res.status(code).end(...): the handler has answered
Answer(code) ==
  /\ apiStatus' = code
  /\ apiPc' = "done"

\* the handler serves no request
ProxyFree == apiPc \in {"idle", "done"}

\* the request that arrives
Arrives(name, method, cik, accession) ==
  apiReq' = [handler |-> name, method |-> method, cik |-> cik, accession |-> accession]

\* the prospectus and prospectus-url handlers up to their first await
HandleIndexRequest(name, method, cikQuery, accessionQuery, cleanCik) ==
  /\ Arrives(name, method, cikQuery, accessionQuery)
  /\ IF method # "GET"
     THEN Answer(405) /\ apiOutbound' = <<>>
     ELSE IF ProxyCik(cikQuery) = "" \/ ProxyAccession(accessionQuery) = ""
     THEN Answer(400) /\ apiOutbound' = <<>>
     ELSE /\ apiOutbound' = << IndexUrl(cleanCik, ProxyAccession(accessionQuery)) >>
          /\ apiStatus' = 0
          /\ apiPc' = "index"
  /\ UNCHANGED <<analysisVars, rateVars, cardVars, serviceVars, obsVars, linkVars, hookVars>>

\* GET /api/sec/prospectus
HandleProspectus ==
  /\ ProxyFree
  /\ \E method \in ProxyMethods, cik \in ProxyCikInputs, accession \in ProxyAccessionInputs :
       HandleIndexRequest("prospectus", method, cik, accession,
                          ProspectusCleanCik(ProxyCik(cik)))

\* GET /api/sec/prospectus-url
HandleProspectusUrl ==
  /\ ProxyFree
  /\ \E method \in ProxyMethods, cik \in ProxyCikInputs, accession \in ProxyAccessionInputs :
       HandleIndexRequest("prospectus-url", method, cik, accession,
                          ProspectusUrlCleanCik(ProxyCik(cik)))

\* GET /api/sec/submissions/CIK...
HandleSubmissions ==
  \E method \in ProxyMethods, cik \in ProxyCikInputs :
     /\ ProxyFree
     /\ Arrives("submissions", method, cik, JsUndefined)
     /\ IF method # "GET"
        THEN Answer(405) /\ apiOutbound' = <<>>
        ELSE IF SubmissionsPadded(cik) = ""
        THEN Answer(400) /\ apiOutbound' = <<>>
        ELSE /\ apiOutbound' = << SubmissionsUrl(SubmissionsPadded(cik)) >>
             /\ apiStatus' = 0
             /\ apiPc' = "submissions"
     /\ UNCHANGED <<analysisVars, rateVars, cardVars, serviceVars, obsVars, linkVars, hookVars>>

\* a fetch of the handler rejects: the catch answers 502
ProxyFetchThrows ==
  /\ apiPc \in {"index", "document", "submissions"}
  /\ Answer(502)
  /\ UNCHANGED <<apiReq, apiOutbound>>
  /\ UNCHANGED <<analysisVars, rateVars, cardVars, serviceVars, obsVars, linkVars, hookVars>>

\* the index is answered not OK: the status is passed on
IndexNotOk ==
  /\ apiPc = "index"
  /\ \E code \in SecNotOkStatuses : Answer(code)
  /\ UNCHANGED <<apiReq, apiOutbound>>
  /\ UNCHANGED <<analysisVars, rateVars, cardVars, serviceVars, obsVars, linkVars, hookVars>>

\* the index is answered OK: prospectus fetches the document it finds (404
\* when it finds none), prospectus-url answers with the URL (the URL of the
\* index when it finds none)
IndexOk ==
  /\ apiPc = "index"
  /\ \E found \in ParsedProspectusUrls :
       IF apiReq.handler = "prospectus-url"
       THEN Answer(200) /\ UNCHANGED apiOutbound
       ELSE IF found.type = "null"
       THEN Answer(404) /\ UNCHANGED apiOutbound
       ELSE /\ apiOutbound' = Append(apiOutbound, found.value)
            /\ apiPc' = "document"
            /\ UNCHANGED apiStatus
  /\ UNCHANGED apiReq
  /\ UNCHANGED <<analysisVars, rateVars, cardVars, serviceVars, obsVars, linkVars, hookVars>>

\* the document is answered: 200 with the HTML, or the status that is not OK
DocumentAnswered ==
  /\ apiPc = "document"
  /\ \E code \in SecStatuses : Answer(code)
  /\ UNCHANGED <<apiReq, apiOutbound>>
  /\ UNCHANGED <<analysisVars, rateVars, cardVars, serviceVars, obsVars, linkVars, hookVars>>

\* the submissions are answered: status and body are passed on
SubmissionsAnswered ==
  /\ apiPc = "submissions"
  /\ \E code \in SecStatuses : Answer(code)
  /\ UNCHANGED <<apiReq, apiOutbound>>
  /\ UNCHANGED <<analysisVars, rateVars, cardVars, serviceVars, obsVars, linkVars, hookVars>>

NextProxy ==
  \/ HandleProspectus
  \/ HandleProspectusUrl
  \/ HandleSubmissions
  \/ ProxyFetchThrows
  \/ IndexNotOk
  \/ IndexOk
  \/ DocumentAnswered
  \/ SubmissionsAnswered

SpecProxy == Init /\ [][NextProxy]_vars

(***************************************************************************)
(* The component ViewProspectusLink of the company page                    *)
(***************************************************************************)

\* the number of times the component is given props
MaxRenders == 3

\* String(cik).replace(/\D/g, '').replace(/^0+/, '') || cik
LinkCleanCik(cik) ==
  IF StripLeadingZeros(DigitsOnly(cik)) # "" THEN StripLeadingZeros(DigitsOnly(cik)) ELSE cik

\* /\.(htm|html)$/i.test(s)
HasHtmExtension(s) ==
  \/ Len(s) >= 4 /\ ToLowerCase(SubSeq(s, Len(s) - 3, Len(s))) = ".htm"
  \/ Len(s) >= 5 /\ ToLowerCase(SubSeq(s, Len(s) - 4, Len(s))) = ".html"

\* https://www.sec.gov/Archives/edgar/data/${cleanCik}/${accNoDashes}/
FilingFolder(props) ==
  "https://www.sec.gov/Archives/edgar/data/" \o LinkCleanCik(props.cik) \o "/"
    \o RemoveDashes(props.accessionNumber) \o "/"

\* directProspectusUrl: the URL of the primary document, or null
directProspectusUrl(props) ==
  IF props.primaryDocument.type = "string" /\ props.primaryDocument.value # ""
     /\ HasHtmExtension(props.primaryDocument.value)
  THEN JsString(FilingFolder(props) \o props.primaryDocument.value)
  ELSE JsNull

\* fallbackIndexUrl
fallbackIndexUrl(props) == FilingFolder(props) \o props.accessionNumber \o "-index.htm"

\* displayUrl = directProspectusUrl ?? url ?? fallbackIndexUrl
displayUrl(props, state) ==
  NullishCoalesce(directProspectusUrl(props),
                  NullishCoalesce(state, JsString(fallbackIndexUrl(props)))).value

\* the dependencies of the effect
EffectDeps(props) == <<props.cik, props.accessionNumber, directProspectusUrl(props)>>

\* the props the page passes
LinkPropsInputs ==
  { [cik |-> "0002081536", accessionNumber |-> "0001213900-26-010324",
     primaryDocument |-> JsUndefined],
    [cik |-> "0002081536", accessionNumber |-> "0001213900-26-010324",
     primaryDocument |-> JsString("ea0271234-424b4.HTM")],
    [cik |-> "1318605", accessionNumber |-> "0001193125-24-000002",
     primaryDocument |-> JsUndefined],
    [cik |-> "1318605", accessionNumber |-> "0001193125-24-000002",
     primaryDocument |-> JsString("0001193125-24-000002.txt")] }

\* the bodies the prospectus-url handler answers a request for props with:
\* the URL of a document of the filing, the URL of its index, or no url
ResponseData(props) ==
  { [url |-> JsString(FilingFolder(props) \o "prospectus.htm")],
    [url |-> JsString(fallbackIndexUrl(props))],
    [url |-> JsUndefined] }

\* the cleanup of the last effect run: cancelled = true, when it fetched
Cleanup(effects, fetched) ==
  IF fetched /\ effects # <<>>
  THEN [effects EXCEPT ![Len(effects)].cancelled = TRUE]
  ELSE effects

\* the last effect run fetched (it returned a cleanup)
LastFetched == mounted /\ directProspectusUrl(linkProps).type = "null"

\* the effect runs for props after the cleanup of the run before it
RunEffect(props, state, cleaned) ==
  /\ linkProps' = props
  /\ renders' = renders + 1
  /\ IF directProspectusUrl(props).type # "null"
     THEN /\ url' = directProspectusUrl(props)
          /\ urlFrom' = <<[props |-> props, request |-> FALSE]>>
          /\ linkEffects' = cleaned
     ELSE /\ url' = state
          /\ urlFrom' = IF state.type = "null" THEN <<>> ELSE urlFrom
          /\ linkEffects' = Append(cleaned, [props |-> props, cancelled |-> FALSE,
                                             settled |-> FALSE])

\* the component is mounted: useState(null), then the effect
LinkMount ==
  /\ ~mounted
  /\ renders < MaxRenders
  /\ mounted' = TRUE
  /\ \E props \in LinkPropsInputs : RunEffect(props, JsNull, linkEffects)
  /\ UNCHANGED <<analysisVars, rateVars, cardVars, serviceVars, obsVars, proxyVars, hookVars>>

\* the component is rendered with other props: when a dependency changed,
\* the cleanup of the last effect run and the effect for the new props
LinkPropsChange ==
  /\ mounted
  /\ renders < MaxRenders
  /\ \E props \in LinkPropsInputs \ {linkProps} :
       IF EffectDeps(props) # EffectDeps(linkProps)
       THEN RunEffect(props, url, Cleanup(linkEffects, LastFetched))
       ELSE /\ linkProps' = props
            /\ renders' = renders + 1
            /\ UNCHANGED <<url, urlFrom, linkEffects>>
  /\ UNCHANGED mounted
  /\ UNCHANGED <<analysisVars, rateVars, cardVars, serviceVars, obsVars, proxyVars, hookVars>>

\* the component is unmounted: the cleanup of the last effect run
LinkUnmount ==
  /\ mounted
  /\ mounted' = FALSE
  /\ linkEffects' = Cleanup(linkEffects, LastFetched)
  /\ url' = JsNull
  /\ urlFrom' = <<>>
  /\ UNCHANGED <<linkProps, renders>>
  /\ UNCHANGED <<analysisVars, rateVars, cardVars, serviceVars, obsVars, proxyVars, hookVars>>

\* the request of effect run k is answered OK:
\* if (!cancelled && data?.url) setUrl(data.url)
LinkResponseOk ==
  /\ \E k \in 1..Len(linkEffects) :
       /\ ~linkEffects[k].settled
       /\ linkEffects' = [linkEffects EXCEPT ![k].settled = TRUE]
       /\ \E data \in ResponseData(linkEffects[k].props) :
            IF ~linkEffects[k].cancelled /\ data.url.type = "string" /\ data.url.value # ""
            THEN /\ url' = data.url
                 /\ urlFrom' = <<[props |-> linkEffects[k].props, request |-> TRUE]>>
            ELSE UNCHANGED <<url, urlFrom>>
  /\ UNCHANGED <<mounted, linkProps, renders>>
  /\ UNCHANGED <<analysisVars, rateVars, cardVars, serviceVars, obsVars, proxyVars, hookVars>>

\* the request of effect run k is answered not OK (data is null) or rejects
\* (the empty catch): url is not set
LinkResponseFails ==
  /\ \E k \in 1..Len(linkEffects) :
       /\ ~linkEffects[k].settled
       /\ linkEffects' = [linkEffects EXCEPT ![k].settled = TRUE]
  /\ UNCHANGED <<mounted, linkProps, url, urlFrom, renders>>
  /\ UNCHANGED <<analysisVars, rateVars, cardVars, serviceVars, obsVars, proxyVars, hookVars>>

NextLink ==
  \/ LinkMount
  \/ LinkPropsChange
  \/ LinkUnmount
  \/ LinkResponseOk
  \/ LinkResponseFails

SpecLink == Init /\ [][NextLink]_vars

(***************************************************************************)
(* The hook useSecFilings: fetchFilings, started by the effect and refetch *)
(***************************************************************************)

\* the number of runs of fetchFilings looked at
MaxRuns == 2

\* the pause between two enrichment requests, in milliseconds
EnrichPauseMs == 160

\* the value of a decimal digit
DigitValue(c) == CHOOSE d \in 0..9 : SubSeq("0123456789", d + 1, d + 1) = c

\* the value of the decimal digits s
RECURSIVE DecimalValue(_)
DecimalValue(s) ==
  IF s = "" THEN 0
  ELSE 10 * DecimalValue(SubSeq(s, 1, Len(s) - 1)) + DigitValue(SubSeq(s, Len(s), Len(s)))

\* the result of parseInt that is not a number
NaN == -1

\* parseInt(s, 10) of a string without sign or leading space: the value
\* of its leading digits, NaN when it has none
ParseInt(s) ==
  IF SkipDigits(s, 0) = 0 THEN NaN ELSE DecimalValue(Slice(s, 0, SkipDigits(s, 0)))

\* (n >= 7370 && n <= 7379) || ... : n lies in a sector that has a name
inNamedSector(n) ==
  \/ n >= 7370 /\ n <= 7379
  \/ (n >= 8000 /\ n <= 8099) \/ (n >= 3840 /\ n <= 3859)
  \/ n >= 6000 /\ n <= 6999
  \/ n >= 5200 /\ n <= 5999
  \/ (n >= 3500 /\ n <= 3999) \/ (n >= 2500 /\ n <= 2599)
  \/ (n >= 1300 /\ n <= 1399) \/ (n >= 2900 /\ n <= 2999) \/ (n >= 1200 /\ n <= 1299)
  \/ n >= 6500 /\ n <= 6599
  \/ n >= 4800 /\ n <= 4899
  \/ n >= 7000 /\ n <= 7999

\* the switch of sicMatchesSector
SectorRange(n, sector) ==
  CASE sector = "software"       -> n >= 7370 /\ n <= 7379
    [] sector = "healthcare"     -> (n >= 8000 /\ n <= 8099) \/ (n >= 3840 /\ n <= 3859)
    [] sector = "financial"      -> n >= 6000 /\ n <= 6999
    [] sector = "consumer"       -> n >= 5200 /\ n <= 5999
    [] sector = "industrial"     -> (n >= 3500 /\ n <= 3999) \/ (n >= 2500 /\ n <= 2599)
    [] sector = "energy"         -> \/ n >= 1300 /\ n <= 1399
                                    \/ n >= 2900 /\ n <= 2999
                                    \/ n >= 1200 /\ n <= 1299
    [] sector = "realestate"     -> n >= 6500 /\ n <= 6599
    [] sector = "communications" -> n >= 4800 /\ n <= 4899
    [] sector = "services"       -> n >= 7000 /\ n <= 7999 /\ (n < 7370 \/ n > 7379)
    [] OTHER                     -> TRUE

\* sicMatchesSector(sic, sector) for sic a string, null or undefined
sicMatchesSector(sic, sector) ==
  IF sic.type # "string" \/ sic.value = "" THEN sector = "all" \/ sector = "other"
  ELSE IF ParseInt(Slice(sic.value, 0, 4)) = NaN THEN sector = "all" \/ sector = "other"
  ELSE IF sector = "all" THEN TRUE
  ELSE IF sector = "other" THEN ~inNamedSector(ParseInt(Slice(sic.value, 0, 4)))
  ELSE SectorRange(ParseInt(Slice(sic.value, 0, 4)), sector)

\* the dash of the display, written in ASCII
Dash == "-"

\* sectorLabel(sicDescription) for a description that is a string or absent
sectorLabel(sicDescription) ==
  IF sicDescription.type # "string" \/ sicDescription.value = "" \/ sicDescription.value = Dash
  THEN Dash
  ELSE IF Len(sicDescription.value) > 24
  THEN Slice(sicDescription.value, 0, 21) \o Ellipsis
  ELSE sicDescription.value

\* what fetchCompanyByCik returns for an answer of the submissions proxy:
\* null when the request threw or was not OK
CompanyOf(answer) ==
  IF answer.how # "ok" THEN JsNull
  ELSE [type |-> "object",
        sicCode |-> answer.sic,
        sicDescription |-> answer.sicDescription]

\* company?.field ?? undefined
FieldOrUndefined(company, field) ==
  IF company.type = "null" THEN JsUndefined
  ELSE IF company[field].type = "null" THEN JsUndefined
  ELSE company[field]

\* { ...secFilings[i], sicCode, sicDescription }
Enriched(filing, company) ==
  [id |-> filing.id, cik |-> filing.cik, companyName |-> filing.companyName,
   filingDate |-> filing.filingDate, formType |-> filing.formType,
   accessionNumber |-> filing.accessionNumber,
   sicCode |-> FieldOrUndefined(company, "sicCode"),
   sicDescription |-> FieldOrUndefined(company, "sicDescription")]

\* the Company that convertedFilings holds for an enriched filing
ConvertedFiling(filing, sectorFilter) ==
  [id |-> filing.id, cik |-> filing.cik, name |-> filing.companyName, ticker |-> "",
   sector |-> IF filing.sicDescription.type = "string" /\ filing.sicDescription.value # ""
              THEN sectorLabel(filing.sicDescription)
              ELSE IF sectorFilter = "software" THEN "Technology" ELSE Dash,
   sicCode |-> filing.sicCode, sicDescription |-> filing.sicDescription,
   filingDate |-> filing.filingDate, accessionNumber |-> filing.accessionNumber,
   onWatchlist |-> FALSE]

\* the message of the catch of fetchFilings
UnavailableMessage ==
  "Live SEC data unavailable. Use npm run dev or npm run start so the proxy can reach SEC EDGAR."

\* the arguments the page renders the hook with, on the last day of Calendar
HookArgsInputs ==
  { [daysBack |-> 3, sectorFilter |-> "all"],
    [daysBack |-> 3, sectorFilter |-> "software"],
    [daysBack |-> 1, sectorFilter |-> "other"] }

\* the hits of a search response and the dates of the entries of a feed
HookHitLists ==
  { <<>>,
    << [hasSource |-> TRUE, cik |-> JsString("1843724"), file_date |-> JsString("2024-01-31"),
        form |-> JsString("S-1/A"), accession_number |-> JsString("0001193125-24-000002"),
        display_name |-> JsString("Acme Holdings Inc")] >>,
    << [hasSource |-> TRUE, cik |-> JsString("1843724"), file_date |-> JsString("2024-01-31"),
        form |-> JsString("S-1/A"), accession_number |-> JsString("0001193125-24-000002"),
        display_name |-> JsString("Acme Holdings Inc")],
       [hasSource |-> TRUE, cik |-> JsString("77"), file_date |-> JsUndefined,
        form |-> JsUndefined, accession_number |-> JsUndefined,
        display_name |-> JsUndefined] >> }

HookFeedDates == { <<>>, << JsString("2024-01-20") >>, << JsString("2024-02-01") >> }

\* the answers of the submissions proxy to fetchCompanyByCik
CompanyAnswers ==
  { [how |-> "threw", sic |-> JsNull, sicDescription |-> JsNull],
    [how |-> "not ok", sic |-> JsNull, sicDescription |-> JsNull],
    [how |-> "ok", sic |-> JsNull, sicDescription |-> JsNull],
    [how |-> "ok", sic |-> JsString("7372"),
     sicDescription |-> JsString("Services-Prepackaged Software")],
    [how |-> "ok", sic |-> JsString("6022"), sicDescription |-> JsString("State Commercial Banks")] }

\* what a run leaves in the state when it ends
Left(f, r, source, message) ==
  [filings |-> f, recentFilings |-> r, dataSource |-> source, error |-> message]

\* a run of fetchFilings up to  await fetchRecentS1Filings(daysBack),  which
\* is at the request of fetchViaSearch.  Kept with the locals of the run, for
\* the properties: how its requests ended (outcomes), its enrichment
\* requests, their answers and its pauses in order (log), the runs in flight
\* when it started (inFlight) and what it left in the state (left)
NewRun(args) ==
  [daysBack |-> args.daysBack, sectorFilter |-> args.sectorFilter, pc |-> "search",
   outcomes |-> <<>>, secFilings |-> <<>>, i |-> 0, enriched |-> <<>>, log |-> <<>>,
   inFlight |-> {k \in 1..Len(fetchRuns) : fetchRuns[k].pc # "done"}, left |-> <<>>]

\* fetchFilings is called: setIsLoading(true); setError(null);
\* setDataSource('loading'), then the search request
StartRun(args) ==
  /\ Len(fetchRuns) < MaxRuns
  /\ hookArgs' = args
  /\ fetchRuns' = Append(fetchRuns, NewRun(args))
  /\ hookLoading' = TRUE
  /\ error' = JsNull
  /\ dataSource' = "loading"
  /\ UNCHANGED <<filings, recentFilings, lastUpdated>>

\* the hook is mounted: the effect calls fetchFilings
HookMount ==
  /\ fetchRuns = <<>>
  /\ \E args \in HookArgsInputs : StartRun(args)
  /\ UNCHANGED <<analysisVars, rateVars, cardVars, serviceVars, obsVars, proxyVars, linkVars>>

\* refetch() is called
HookRefetch ==
  /\ fetchRuns # <<>>
  /\ StartRun(hookArgs)
  /\ UNCHANGED <<analysisVars, rateVars, cardVars, serviceVars, obsVars, proxyVars, linkVars>>

\* daysBack or sectorFilter changes: fetchFilings is made anew and the
\* effect calls it
HookArgsChange ==
  /\ fetchRuns # <<>>
  /\ \E args \in HookArgsInputs \ {hookArgs} : StartRun(args)
  /\ UNCHANGED <<analysisVars, rateVars, cardVars, serviceVars, obsVars, proxyVars, linkVars>>

\* the end of run k, which leaves f, r, source and message: the set calls
\* of its branch, then  finally { setIsLoading(false) }
EndRun(k, run, f, r, source, message) ==
  /\ filings' = f
  /\ recentFilings' = r
  /\ dataSource' = source
  /\ error' = message
  /\ lastUpdated' = k
  /\ hookLoading' = FALSE
  /\ fetchRuns' = [fetchRuns EXCEPT ![k] =
                     [run EXCEPT !.pc = "done", !.left = <<Left(f, r, source, message)>>]]
  /\ UNCHANGED hookArgs

\* the loop of run k has ended: setRecentFilings(enriched), setFilings(...)
EndLoop(k, run) ==
  EndRun(k, run,
         [n \in 1..Len(run.enriched) |-> ConvertedFiling(run.enriched[n], run.sectorFilter)],
         run.enriched, "sec-api", JsNull)

\* the catch of fetchFilings.  No await of the try block rejects:
\* fetchViaSearch, fetchViaRecentS1 and fetchCompanyByCik catch what their
\* requests throw and return [] or null, so no step of a run takes it
CatchBranch(k, run) ==
  EndRun(k, run, <<>>, <<>>, "curated", JsString(UnavailableMessage))

\* run k goes on, with its locals as in run
GoOn(k, run) ==
  /\ fetchRuns' = [fetchRuns EXCEPT ![k] = run]
  /\ UNCHANGED <<filings, recentFilings, hookLoading, error, dataSource, lastUpdated, hookArgs>>

\* the loop of run k at its head with index n (from 0): the request of
\* fetchCompanyByCik(secFilings[n].cik), or the end of the loop
LoopHead(k, run, n) ==
  IF n < Len(run.secFilings)
  THEN GoOn(k, [run EXCEPT !.i = n, !.pc = "company",
                           !.log = Append(run.log, [kind |-> "request", index |-> n, ms |-> 0,
                                                    cik |-> PadStart(run.secFilings[n + 1].cik,
                                                                     CikLen, "0")])])
  ELSE EndLoop(k, [run EXCEPT !.i = n])

\* fetchRecentS1Filings has returned list to run k
Returned(k, run, list) ==
  IF Len(list) > 0
  THEN LoopHead(k, [run EXCEPT !.secFilings = list], 0)
  ELSE EndRun(k, run, <<>>, <<>>, "sec-api", JsNull)

\* fetchViaSearch has returned list to fetchRecentS1Filings in run k
SearchReturned(k, list, how) ==
  IF Len(list) > 0
  THEN Returned(k, [fetchRuns[k] EXCEPT !.outcomes = Append(@, how)], list)
  ELSE GoOn(k, [fetchRuns[k] EXCEPT !.outcomes = Append(@, how), !.pc = "feed"])

\* the search request of run k is rejected or answered not OK: return []
HookSearchFails ==
  /\ \E k \in 1..Len(fetchRuns), how \in {"threw", "not ok"} :
       /\ fetchRuns[k].pc = "search"
       /\ SearchReturned(k, <<>>, how)
  /\ UNCHANGED <<analysisVars, rateVars, cardVars, serviceVars, obsVars, proxyVars, linkVars>>

\* the search request of run k is answered OK
HookSearchOk ==
  /\ \E k \in 1..Len(fetchRuns), hits \in HookHitLists :
       /\ fetchRuns[k].pc = "search"
       /\ SearchReturned(k, FilingsOfHits(hits), "ok")
  /\ UNCHANGED <<analysisVars, rateVars, cardVars, serviceVars, obsVars, proxyVars, linkVars>>

\* fetchViaRecentS1 has returned list to fetchRecentS1Filings in run k
FeedReturned(k, list, how) ==
  Returned(k, [fetchRuns[k] EXCEPT !.outcomes = Append(@, how)],
           FilterInRange(list,
                         getDateRange(fetchRuns[k].daysBack, Len(Calendar)).dateFrom,
                         getDateRange(fetchRuns[k].daysBack, Len(Calendar)).dateTo))

\* the feed request of run k is rejected or answered not OK: return []
HookFeedFails ==
  /\ \E k \in 1..Len(fetchRuns), how \in {"threw", "not ok"} :
       /\ fetchRuns[k].pc = "feed"
       /\ FeedReturned(k, <<>>, how)
  /\ UNCHANGED <<analysisVars, rateVars, cardVars, serviceVars, obsVars, proxyVars, linkVars>>

\* the feed request of run k is answered OK
HookFeedOk ==
  /\ \E k \in 1..Len(fetchRuns), ds \in HookFeedDates :
       /\ fetchRuns[k].pc = "feed"
       /\ FeedReturned(k, [n \in 1..Len(ds) |-> FilingOfEntry(FeedEntry(ds[n]))], "ok")
  /\ UNCHANGED <<analysisVars, rateVars, cardVars, serviceVars, obsVars, proxyVars, linkVars>>

\* the body of the loop of run k once fetchCompanyByCik has returned
\* company: continue when the sector does not match, else push and pause
\* unless the filing is the last
LoopBody(k, run, company) ==
  IF run.sectorFilter # "all"
     /\ ~sicMatchesSector(NullishCoalesce(FieldOrUndefined(company, "sicCode"), JsNull),
                          run.sectorFilter)
  THEN LoopHead(k, run, run.i + 1)
  ELSE IF run.i < Len(run.secFilings) - 1
  THEN GoOn(k, [run EXCEPT !.enriched = Append(@, Enriched(run.secFilings[run.i + 1], company)),
                           !.pc = "pause",
                           !.log = Append(@, [kind |-> "pause", index |-> run.i,
                                              ms |-> EnrichPauseMs, cik |-> ""])])
  ELSE LoopHead(k, [run EXCEPT !.enriched =
                                  Append(@, Enriched(run.secFilings[run.i + 1], company))],
                run.i + 1)

\* the enrichment request of run k is answered, rejected or not OK
HookCompanyAnswered ==
  /\ \E k \in 1..Len(fetchRuns), answer \in CompanyAnswers :
       /\ fetchRuns[k].pc = "company"
       /\ LoopBody(k, [fetchRuns[k] EXCEPT
                          !.outcomes = Append(@, answer.how),
                          !.log = Append(@, [kind |-> "answer", index |-> fetchRuns[k].i,
                                             ms |-> 0, cik |-> ""])],
                   CompanyOf(answer))
  /\ UNCHANGED <<analysisVars, rateVars, cardVars, serviceVars, obsVars, proxyVars, linkVars>>

\* the timer of the pause of run k fires: i++ and the head of the loop
HookPauseEnds ==
  /\ \E k \in 1..Len(fetchRuns) :
       /\ fetchRuns[k].pc = "pause"
       /\ LoopHead(k, fetchRuns[k], fetchRuns[k].i + 1)
  /\ UNCHANGED <<analysisVars, rateVars, cardVars, serviceVars, obsVars, proxyVars, linkVars>>

NextHook ==
  \/ HookMount
  \/ HookRefetch
  \/ HookArgsChange
  \/ HookSearchFails
  \/ HookSearchOk
  \/ HookFeedFails
  \/ HookFeedOk
  \/ HookCompanyAnswered
  \/ HookPauseEnds

SpecHook == Init /\ [][NextHook]_vars

(***************************************************************************)
(* Properties of extractSections (checked under SpecSections)              *)
(***************************************************************************)

\* the list is the single synthetic span named "Summary" that starts at 0
IsSummaryFallback(r) == Len(r) = 1 /\ r[1].name = "Summary" /\ r[1].start = 0

\* C1: every span returned by extractSections has content of at least 150
\* characters, unless the returned list is exactly the single synthetic span
\* named "Summary" (start 0).
C1_SpanContentAtLeast150 ==
  op = "extractSections" =>
    \/ \A k \in 1..Len(result) : Len(result[k].content) >= 150
    \/ IsSummaryFallback(result)

\* a heading was found, its span was kept, and the span of another heading
\* found in the same text was discarded as too short
C1_Witness ==
  /\ op = "extractSections"
  /\ Len(result) >= 1
  /\ ~IsSummaryFallback(result)
  /\ Len(CollectMatches(stripBoilerplate(text), <<>>, 1)) > Len(result)

\* no section-heading pattern matches anywhere in t
NoHeadingIn(t) ==
  \A i \in 1..Len(SECTION_PATTERNS) : SectionMatches(t, SECTION_PATTERNS[i]) = <<>>

\* C4: when the text given to extractSections contains no match of any known
\* section-heading pattern and has more than 500 characters of body text
\* (counted after boilerplate stripping), extractSections returns exactly one
\* span and that span is named "Summary".
C4_SummaryWhenNoHeading ==
  (/\ op = "extractSections"
   /\ NoHeadingIn(text)
   /\ Len(stripBoilerplate(text)) > 500)
  => Len(result) = 1 /\ result[1].name = "Summary"

(***************************************************************************)
(* Properties of extractSubstantiveExcerpt (checked under SpecExcerpt)     *)
(***************************************************************************)

\* r without the ellipsis marker at its end, if it has one
StripEllipsis(r) ==
  IF Len(r) > 0 /\ CharAt(r, Len(r) - 1) = Ellipsis THEN Slice(r, 0, Len(r) - 1) ELSE r

C3_RatioFinite ==
  op = "analyzeProspectus" =>
    LET r == result.metrics.conditionalRatio
        c == result.metrics.conditionalTotal
        d == result.metrics.definitiveTotal
    IN /\ r.kind = "finite"
       /\ r.den > 0
       /\ r.num >= 0
       /\ d = 0 => r.num = 0
       /\ d > 0 => r.num * d = c * r.den

\* a text with conditional phrases and no definitive phrase was analysed
C3_Witness ==
  /\ op = "analyzeProspectus"
  /\ result.metrics.definitiveTotal = 0
  /\ result.metrics.conditionalTotal > 0
  /\ result.metrics.conditionalRatio = [kind |-> "finite", num |-> 0, den |-> 1]

\* the briefing has a Risk Factors section whose observation includes the
\* sentence on heavy conditional phrasing
HasHeavyRiskSection(b) ==
  \E k \in 1..Len(b.sections) :
    /\ b.sections[k].heading = "Risk Factors"
    /\ Includes(b.sections[k].excerpts[1].observation, "Heavy use of conditional phrasing")

\* a "Risk Factors" heading line followed by 600 words holding 60 conditional phrases
HeavyRiskText == "Risk Factors\n" \o HeavyProse

ConditionalOccurrences(content) ==
  Len(ExecLoop([i \in 0..(Len(content) - 1) |-> PhraseMatchAt(content, i, ConditionalWords)],
               Len(content)))

\* the place of the j-th span in relevance order: after the spans of higher
\* priority and after the earlier spans of the same priority
RelevanceRank(ss, j) ==
  Cardinality({i \in 1..Len(ss) :
                 \/ sortByRelevance(ss[i], ss[j]) < 0
                 \/ sortByRelevance(ss[i], ss[j]) = 0 /\ i < j}) + 1

NoAllocationLanguage(content) ==
  /\ ~Includes(content, "%")
  /\ ~Includes(ToLowerCase(content), "percent")
  /\ ~Includes(ToLowerCase(content), "allocation")
  /\ ~\E i \in 0..(Len(content) - 1) :
        CharAt(content, i) = "$" /\ IsDigit(CharAt(content, SkipWs(content, i + 1)))

\* C6: for every Use of Proceeds section whose content contains no
\* percentage sign, no "percent", no "allocation" and no dollar amount, the
\* observation derived for it includes "No specific allocation percentages
\* quoted", whatever the length of the excerpt the section yields.
C6_VagueProceeds ==
  op = "analyzeProspectus" =>
    \A j \in 1..Len(spans) :
      (/\ spans[j].name = "Use of Proceeds"
       /\ NoAllocationLanguage(spans[j].content))
      => \A k \in 1..Len(result.sections) :
           (/\ result.sections[k].heading = "Use of Proceeds"
            /\ result.sections[k].excerpts[1].quote
                 = extractSubstantiveExcerpt(spans[j].content, ExcerptMaxLen))
           => Includes(result.sections[k].excerpts[1].observation,
                       "No specific allocation percentages quoted")

\* C8: the briefing's prospectusUrl is a string: meta.prospectusUrl when
\* that is supplied and the empty string when it is missing, never
\* undefined or null.
C8_ProspectusUrlString ==
  op = "analyzeProspectus" =>
    /\ result.prospectusUrl.type = "string"
    /\ meta.prospectusUrl.type = "string" => result.prospectusUrl = meta.prospectusUrl
    /\ meta.prospectusUrl.type # "string" => result.prospectusUrl = JsString("")

\* a briefing was made from a meta record without prospectusUrl
C8_Witness ==
  /\ op = "analyzeProspectus"
  /\ meta.prospectusUrl = JsUndefined
  /\ result.prospectusUrl = JsString("")

(***************************************************************************)
(* Properties of a sequence of calls (checked under SpecCalls)             *)
(***************************************************************************)

\* C7: analyzeProspectus keeps no cross-call state: after any sequence of
\* earlier calls, two calls on identical (html, meta) return identical
\* sections, metrics and overview, and the module-level regular expressions
\* carry no match position from one call into the next (their lastIndex is 0
\* after every call).
C7_NoCrossCallState ==
  /\ \A i \in 1..Len(calls) : calls[i].lastIndex = [CONDITIONAL |-> 0, DEFINITIVE |-> 0]
  /\ \A i, j \in 1..Len(calls) :
       (calls[i].text = calls[j].text /\ calls[i].meta = calls[j].meta)
       => /\ calls[i].briefing.sections = calls[j].briefing.sections
          /\ calls[i].briefing.metrics = calls[j].briefing.metrics
          /\ calls[i].briefing.overview = calls[j].briefing.overview

\* the same text, with definitive and conditional phrases in a Risk Factors
\* section, was analysed twice with the same meta at different times
C7_Witness ==
  /\ Len(calls) = 2
  /\ calls[1].text = calls[2].text
  /\ calls[1].meta = calls[2].meta
  /\ calls[1].briefing.generatedAt # calls[2].briefing.generatedAt
  /\ calls[1].briefing.metrics.definitiveTotal > 0
  /\ calls[1].briefing.metrics.conditionalTotal > 0
  /\ Len(calls[1].briefing.sections) > 0


(***************************************************************************)
(* Property of rateLimitedFetch (checked under SpecRate)                   *)
(***************************************************************************)

\* C9: any two outbound requests are issued at least MIN_REQUEST_INTERVAL_MS
\* (150 ms) apart, for any number of concurrent callers and any
\* interleaving of their timers.
C9_RequestsSpaced ==
  \A i, j \in 1..Len(requests) :
    i < j => requests[j] - requests[i] >= MIN_REQUEST_INTERVAL_MS

(***************************************************************************)
(* Property of generateBriefing (checked under SpecCard)                   *)
(***************************************************************************)

\* C10: every failure of generateBriefing (empty cik or accession number, a
\* rejected fetch, a non-OK response, an exception during analysis) ends
\* with onError called once with a message, briefing null and isLoading
\* false; and no network request is ever made with an empty cik or
\* accession number.
C10_FailureReported ==
  /\ (handler.pc = "idle" /\ handler.last = "failed") =>
       /\ Cardinality({k \in 1..Len(errors) : errors[k].run = handler.run}) = 1
       /\ \A k \in 1..Len(errors) : errors[k].run = handler.run => errors[k].msg # ""
       /\ briefing = JsNull
       /\ isLoading = FALSE
  /\ \A k \in 1..Len(fetches) : fetches[k].cik # "" /\ fetches[k].accessionNumber # ""
  /\ (handler.cik = "" \/ handler.accessionNumber = "") => Len(fetches) < handler.run \/ handler.run = 0

\* a run failed after its request was made, and an earlier run failed on
\* the guard without a request
C10_Witness ==
  /\ handler.pc = "idle"
  /\ handler.last = "failed"
  /\ handler.run = 2
  /\ Len(fetches) = 1
  /\ Len(errors) = 2
  /\ errors[1].msg = "Missing accession number or CIK"
  /\ errors[2].msg = "Fetch failed: 404"

(***************************************************************************)
(* Property of fetchRecentS1Filings (checked under SpecService)            *)
(***************************************************************************)

\* the day of the date string d is one of the days from dateFrom to dateTo
DayInRange(d) ==
  \E i, j, k \in 1..Len(Calendar) :
    /\ Calendar[i] = dateFrom
    /\ Calendar[k] = dateTo
    /\ i <= j /\ j <= k
    /\ Len(d) >= Len(Calendar[j])
    /\ SubSeq(d, 1, Len(Calendar[j])) = Calendar[j]

\* C11: fetchRecentS1Filings always queries the full-text search first, and
\* the recent-S1 feed is requested if and only if the search yielded zero
\* filings (empty result, non-OK response or thrown error); when the feed is
\* used, every returned filing has a filingDate inside [dateFrom, dateTo].
C11_SearchFirstFeedOnZero ==
  /\ sent # <<>> => sent[1] = "search"
  /\ Len(sent) <= 2
  /\ Len(sent) = 2 => sent[2] = "recent-s1"
  /\ svcPc = "search" => sent = <<"search">>
  /\ svcPc \in {"feed", "done"} =>
       /\ (Len(sent) = 2) <=> (Len(searchList) = 0)
       /\ outcomes[1] \in {"threw", "not ok"} => Len(sent) = 2
  /\ (svcPc = "done" /\ Len(sent) = 2) =>
       \A k \in 1..Len(returned) : DayInRange(returned[k].filingDate)

\* the search answered with hits that gave no filing, the feed was used and
\* one of its two entries, dated with a time of day, was returned
C11_Witness ==
  /\ svcPc = "done"
  /\ outcomes = <<"ok", "ok">>
  /\ sent = <<"search", "recent-s1">>
  /\ Len(rssList) = 2
  /\ Len(returned) = 1
  /\ Len(returned[1].filingDate) > IsoDateLen

(***************************************************************************)
(* Further properties of extractSections (checked under SpecSections)      *)
(***************************************************************************)

\* the offsets of the heading matches that extractSections records in t
DetectedOffsets(t) ==
  {CollectMatches(stripBoilerplate(t), <<>>, 1)[j].index :
     j \in 1..Len(CollectMatches(stripBoilerplate(t), <<>>, 1))}

\* the offset of the next detected heading after start, or the end of the text
NextOffset(cleaned, offsets, start) ==
  IF {o \in offsets : o > start} = {} THEN Len(cleaned) ELSE Min({o \in offsets : o > start})

\* The text from start to end with the heading's own line taken off: the
\* heading text starts after the blank characters at the match offset, and
\* its line ends at the first newline after that.
ContentAfterHeadingLine(cleaned, start, end) ==
  LET nl == IndexOf(cleaned, "\n", SkipWs(cleaned, start))
  IN IF nl >= 0 /\ nl < end /\ nl - start < 120
     THEN Trim(Slice(cleaned, nl, end))
     ELSE Slice(cleaned, start, end)

\* C12: for every heading match at any offset of the cleaned text (not only
\* offset 0), when the first newline ending the heading line lies within 120
\* characters, the heading's own line is removed from the front of the span
\* content, so the content of a returned span never begins with its own
\* heading text.
C12_HeadingLineRemoved ==
  (op = "extractSections" /\ ~IsSummaryFallback(result)) =>
    \A k \in 1..Len(result) :
      /\ result[k].start \in DetectedOffsets(text)
      /\ result[k].content
           = ContentAfterHeadingLine(stripBoilerplate(text), result[k].start,
                                     NextOffset(stripBoilerplate(text), DetectedOffsets(text),
                                                result[k].start))

\* C13: the spans returned by extractSections are in document order with
\* strictly increasing start offsets, and each span's content is taken only
\* from the cleaned text between its own heading offset and the offset of
\* the next detected heading (or the end of the text), so no two returned
\* spans share a character of the cleaned text.
C13_SpansOrderedDisjoint ==
  op = "extractSections" =>
    /\ \A k \in 1..(Len(result) - 1) : result[k].start < result[k + 1].start
    /\ \A k \in 1..Len(result) :
         Includes(Slice(stripBoilerplate(text), result[k].start,
                        IF k < Len(result) THEN result[k + 1].start
                        ELSE Len(stripBoilerplate(text))),
                  result[k].content)
    /\ ~IsSummaryFallback(result) =>
         \A k \in 1..Len(result) :
           /\ result[k].start \in DetectedOffsets(text)
           /\ Includes(Slice(stripBoilerplate(text), result[k].start,
                             NextOffset(stripBoilerplate(text), DetectedOffsets(text),
                                        result[k].start)),
                       result[k].content)

\* two spans were returned, the second for a pattern that comes before the
\* pattern of the first in SECTION_PATTERNS
C13_Witness ==
  /\ op = "extractSections"
  /\ Len(result) = 2
  /\ result[1].name = "Use of Proceeds"
  /\ result[2].name = "Risk Factors"

\* the matches of every pattern in the cleaned text, each with the place of
\* its pattern in SECTION_PATTERNS
RawMatches(cleaned) ==
  UNION {{[pat |-> i, index |-> SectionMatches(cleaned, SECTION_PATTERNS[i])[j].index] :
            j \in 1..Len(SectionMatches(cleaned, SECTION_PATTERNS[i]))} :
         i \in 1..Len(SECTION_PATTERNS)}

\* the offsets of the matches recorded in the cleaned text
KeptOffsets(cleaned) ==
  {CollectMatches(cleaned, <<>>, 1)[j].index : j \in 1..Len(CollectMatches(cleaned, <<>>, 1))}

\* The raw match r is one of those recorded.  Matches at one offset are
\* dropped or recorded together, the first of them in pattern order then
\* being the one recorded.
IsKept(r, raw, kept) ==
  r.index \in kept /\ \A q \in raw : q.index = r.index => q.pat >= r.pat

\* q is looked at before r: patterns in list order, the matches of a
\* pattern in text order
LookedAtBefore(q, r) == q.pat < r.pat \/ (q.pat = r.pat /\ q.index < r.index)

Near(q, r) == q.index - r.index < 30 /\ r.index - q.index < 30

\* C14 for the cleaned text, its raw matches and the offsets recorded
DroppedForOtherPattern(raw, kept) ==
  /\ \A r \in raw :
       ~IsKept(r, raw, kept) <=>
         \E q \in raw : /\ IsKept(q, raw, kept) /\ LookedAtBefore(q, r)
                        /\ q.pat # r.pat /\ Near(q, r)
  /\ \A q, r \in raw :
       (q.pat < r.pat /\ Near(q, r)) => IsKept(q, raw, kept) /\ ~IsKept(r, raw, kept)

\* C14 as stated: a heading match is dropped exactly when it lies within 30
\* characters of an already-recorded match of a different pattern;
\* consequently, of two matches from different patterns that lie within 30
\* characters of each other, the one kept is the match of the pattern that
\* comes earlier in SECTION_PATTERNS.
C14_DroppedNearOtherPattern ==
  op = "extractSections" =>
    DroppedForOtherPattern(RawMatches(stripBoilerplate(text)),
                           KeptOffsets(stripBoilerplate(text)))

\* C14 amended, for the cleaned text, its raw matches and the offsets recorded
DroppedForRecorded(raw, kept) ==
  /\ \A r \in raw :
       ~IsKept(r, raw, kept) <=>
         \E q \in raw : IsKept(q, raw, kept) /\ LookedAtBefore(q, r) /\ Near(q, r)
  /\ \A q, r \in raw :
       (q # r /\ Near(q, r)) => ~(IsKept(q, raw, kept) /\ IsKept(r, raw, kept))
  /\ \A q, r \in raw :
       (q.pat < r.pat /\ Near(q, r) /\ IsKept(q, raw, kept)) => ~IsKept(r, raw, kept)

\* C14 as amended: a heading match is dropped exactly when it lies within 30
\* characters of an already-recorded match, of whatever pattern, its own
\* included; consequently, of two matches that lie within 30 characters of
\* each other at most one is kept, and when the match of the pattern that
\* comes earlier in SECTION_PATTERNS is kept, the other one is dropped.
C14_DroppedNearRecorded ==
  op = "extractSections" =>
    DroppedForRecorded(RawMatches(stripBoilerplate(text)),
                       KeptOffsets(stripBoilerplate(text)))

\* Three headings of three patterns in a row: the second was dropped for
\* the first, and the third, within 30 characters of the second only, was
\* recorded although its pattern comes later.
C14_Witness ==
  /\ op = "extractSections"
  /\ Cardinality(RawMatches(stripBoilerplate(text))) = 3
  /\ KeptOffsets(stripBoilerplate(text)) = {0, 37}
  /\ \E y, z \in RawMatches(stripBoilerplate(text)) :
       /\ y.pat < z.pat /\ Near(y, z)
       /\ y.index \notin KeptOffsets(stripBoilerplate(text))
       /\ z.index = 37

\* the (offset, name) tuples of the raw matches of patterns i.. of the list,
\* in pattern order, the matches of one pattern in text order
RECURSIVE RawTuples(_, _)
RawTuples(cleaned, i) ==
  IF i > Len(SECTION_PATTERNS) THEN <<>>
  ELSE [j \in 1..Len(SectionMatches(cleaned, SECTION_PATTERNS[i])) |->
          [name  |-> normalizeSectionName(Trim(SectionMatches(cleaned, SECTION_PATTERNS[i])[j].g)),
           index |-> SectionMatches(cleaned, SECTION_PATTERNS[i])[j].index]]
       \o RawTuples(cleaned, i + 1)

\* the place of tuple i of tuples once they are sorted by offset, tuples of
\* one offset staying in their order
PlaceByOffset(tuples, i) ==
  Cardinality({j \in 1..Len(tuples) :
                 tuples[j].index < tuples[i].index
                   \/ (tuples[j].index = tuples[i].index /\ j < i)}) + 1

SortedByOffset(tuples) ==
  [r \in 1..Len(tuples) |-> tuples[CHOOSE i \in 1..Len(tuples) : PlaceByOffset(tuples, i) = r]]

\* the tuples accepted greedily from tuples k.., a tuple being dropped when
\* it lies within 30 characters of one in accepted
RECURSIVE GreedyAccept(_, _, _)
GreedyAccept(tuples, k, accepted) ==
  IF k > Len(tuples) THEN accepted
  ELSE GreedyAccept(tuples, k + 1,
                    IF \E a \in accepted : Near(a, tuples[k]) THEN accepted
                    ELSE accepted \cup {tuples[k]})

\* the set of (offset, name) tuples of the matches extractSections keeps
KeptTuples(cleaned) ==
  {CollectMatches(cleaned, <<>>, 1)[j] : j \in 1..Len(CollectMatches(cleaned, <<>>, 1))}

\* C15 as stated: the set of heading matches kept by extractSections equals
\* the set obtained by collecting the raw matches of all patterns as
\* (offset, name) tuples, sorting them by offset, and then greedily dropping
\* every tuple that lies within 30 characters of an already-accepted tuple.
C15_KeptIsGreedyByOffset ==
  op = "extractSections" =>
    KeptTuples(stripBoilerplate(text))
      = GreedyAccept(SortedByOffset(RawTuples(stripBoilerplate(text), 1)), 1, {})

\* C15 as amended: the set of heading matches kept by extractSections equals
\* the set obtained by collecting the raw matches of all patterns as
\* (offset, name) tuples in the order of SECTION_PATTERNS, the matches of one
\* pattern in text order, and greedily dropping every tuple that lies within
\* 30 characters of an already-accepted tuple; the sort by offset comes after.
C15_KeptIsGreedyByPattern ==
  op = "extractSections" =>
    KeptTuples(stripBoilerplate(text))
      = GreedyAccept(RawTuples(stripBoilerplate(text), 1), 1, {})

\* A Risk Factors heading between two Use of Proceeds headings: the pattern
\* of the middle one comes first, so it alone is kept, where the greedy pass
\* in offset order keeps the two outer ones.
C15_Witness ==
  /\ op = "extractSections"
  /\ Len(RawTuples(stripBoilerplate(text), 1)) = 3
  /\ KeptTuples(stripBoilerplate(text)) = {[name |-> "Risk Factors", index |-> 24]}
  /\ Cardinality(GreedyAccept(SortedByOffset(RawTuples(stripBoilerplate(text), 1)), 1, {})) = 2

(***************************************************************************)
(* Further properties of extractSubstantiveExcerpt (under SpecExcerpt)     *)
(***************************************************************************)

NoParagraph == [none |-> TRUE]

\* the candidate paragraph of content at or after pos, whitespace collapsed:
\* the first one of 60 characters or more that is no boilerplate
RECURSIVE CandidateParagraph(_, _)
CandidateParagraph(content, pos) ==
  IF pos > Len(content) THEN NoParagraph
  ELSE LET n     == Len(content)
           sep   == CHOOSE j \in pos..n :
                      /\ j = n \/ (CharAt(content, j) = "\n" /\ CharAt(content, j + 1) = "\n")
                      /\ \A k \in pos..(j - 1) :
                           ~(CharAt(content, k) = "\n" /\ CharAt(content, k + 1) = "\n")
           next  == IF sep = n THEN n + 1 ELSE SkipWhile(IsNewline, content, sep)
           clean == Trim(CollapseWs(Slice(content, pos, sep)))
       IN IF Len(clean) < MinParagraphChars \/ IsBoilerplate(clean)
          THEN CandidateParagraph(content, next)
          ELSE [none |-> FALSE, clean |-> clean]

\* the positions of the periods of clean from maxL/2 to maxL
PeriodsInWindow(clean, maxL) ==
  {p \in 0..(Len(clean) - 1) : CharAt(clean, p) = "." /\ 2 * p >= maxL /\ p <= maxL}

\* the excerpt C16 describes for a paragraph longer than maxL
CutAtLastPeriod(clean, maxL) ==
  IF PeriodsInWindow(clean, maxL) # {}
  THEN Slice(clean, 0, Max(PeriodsInWindow(clean, maxL)) + 1)
  ELSE Slice(clean, 0, maxL) \o Ellipsis

\* C16 for the candidate paragraph c and the excerpt r
CutWithinMaxLen(c, maxL, r) ==
  (~c.none /\ Len(c.clean) > maxL) =>
    r = CutAtLastPeriod(c.clean, maxL) /\ Len(r) <= maxL + 1

\* C16: for a candidate paragraph longer than maxLen,
\* extractSubstantiveExcerpt returns the paragraph prefix that ends with the
\* last period at or after position maxLen/2 and not beyond maxLen, and
\* without such a period the first maxLen characters followed by an ellipsis
\* marker; the result is never longer than maxLen characters plus one.
C16_CutAtLastPeriodWithinMaxLen ==
  op = "extractSubstantiveExcerpt" =>
    CutWithinMaxLen(CandidateParagraph(text, 0), maxLen, result)

(***************************************************************************)
(* Properties of the metrics of analyzeProspectus (under SpecMetrics)      *)
(***************************************************************************)

\* the matches of CONDITIONAL in t, in text order
ConditionalMatches(t) ==
  ExecLoop([i \in 0..(Len(t) - 1) |-> PhraseMatchAt(t, i, ConditionalWords)], Len(t))

\* the whole text of match j of ms in t, m[0], lower-cased
MatchedPhrase(t, ms, j) == ToLowerCase(Slice(t, ms[j].index, ms[j].end))

\* the word of match j of ms, m[2], lower-cased
MatchedWord(ms, j) == ToLowerCase(ms[j].g)

\* the keys of counts differ from one another
DistinctKeys(counts) ==
  \A k, l \in 1..Len(counts) : counts[k].phrase = counts[l].phrase => k = l

\* counts is the tally of the matches ms of t by whole matched phrase, and
\* total the sum of its counts
TalliedByPhrase(t, ms, counts, total) ==
  /\ DistinctKeys(counts)
  /\ {counts[k].phrase : k \in 1..Len(counts)} = {MatchedPhrase(t, ms, j) : j \in 1..Len(ms)}
  /\ \A k \in 1..Len(counts) :
       counts[k].count = Cardinality({j \in 1..Len(ms) : MatchedPhrase(t, ms, j) = counts[k].phrase})
  /\ total = SumCounts(counts, 1)

\* C17 as stated: conditional matches are tallied per distinct lower-cased
\* matched phrase, so that "we may" and "may" are counted under different
\* keys; the count of a key is the number of matches of exactly that phrase
\* and conditionalTotal is the sum of all the counts.
C17_TalliedPerMatchedPhrase ==
  op = "analyzeProspectus" =>
    TalliedByPhrase(stripBoilerplate(stripHtml(text)),
                    ConditionalMatches(stripBoilerplate(stripHtml(text))),
                    countInText(stripBoilerplate(stripHtml(text)), ConditionalWords),
                    result.metrics.conditionalTotal)

\* counts is the tally of the matches ms by their word, and total the sum of
\* its counts, the number of matches
TalliedByWord(ms, counts, total) ==
  /\ DistinctKeys(counts)
  /\ {counts[k].phrase : k \in 1..Len(counts)} = {MatchedWord(ms, j) : j \in 1..Len(ms)}
  /\ \A k \in 1..Len(counts) :
       counts[k].count = Cardinality({j \in 1..Len(ms) : MatchedWord(ms, j) = counts[k].phrase})
  /\ total = SumCounts(counts, 1)
  /\ total = Len(ms)

\* C17 as amended: conditional matches are tallied per distinct lower-cased
\* conditional word, the second group of the match, so that "we may" and
\* "may" are both counted under the key "may"; the count of a key is the
\* number of matches with that word and conditionalTotal is the sum of all
\* the counts, the number of matches.
C17_TalliedPerWord ==
  op = "analyzeProspectus" =>
    TalliedByWord(ConditionalMatches(stripBoilerplate(stripHtml(text))),
                  countInText(stripBoilerplate(stripHtml(text)), ConditionalWords),
                  result.metrics.conditionalTotal)

\* "may" and "We may" were both matched and counted under the key "may"
C17_Witness ==
  /\ op = "analyzeProspectus"
  /\ text = AllConditionals
  /\ result.metrics.conditionalPhrases[1] = [phrase |-> "may", count |-> 2]
  /\ result.metrics.conditionalTotal = 13

\* the number of matches of ms with the word w
OccurrencesOf(ms, w) == Cardinality({j \in 1..Len(ms) : MatchedWord(ms, j) = w})

\* the place in ms of the first match with the word w
FirstOccurrence(ms, w) == Min({j \in 1..Len(ms) : MatchedWord(ms, j) = w})

\* C18 for the matches ms of the text and the list reported
TopTenByCount(ms, list) ==
  /\ Len(list) <= 10
  /\ \A k, l \in 1..Len(list) :
       k < l => /\ list[k].count >= list[l].count
                /\ list[k].phrase # list[l].phrase
                /\ list[k].count = list[l].count
                     => FirstOccurrence(ms, list[k].phrase) < FirstOccurrence(ms, list[l].phrase)
  /\ \A k \in 1..Len(list) :
       /\ OccurrencesOf(ms, list[k].phrase) = list[k].count
       /\ list[k].count > 0
  /\ \A j \in 1..Len(ms) :
       (\A k \in 1..Len(list) : list[k].phrase # MatchedWord(ms, j))
         => /\ Len(list) = 10
            /\ \A k \in 1..Len(list) : OccurrencesOf(ms, MatchedWord(ms, j)) <= list[k].count

\* C18: metrics.conditionalPhrases has at most 10 entries, is ordered by
\* non-increasing count with ties in the order of first occurrence in the
\* text, lists no phrase twice, and every tallied phrase left out of it has
\* a count no greater than the smallest count listed.
C18_TopTenConditionalPhrases ==
  op = "analyzeProspectus" =>
    TopTenByCount(ConditionalMatches(stripBoilerplate(stripHtml(text))),
                  result.metrics.conditionalPhrases)

\* twelve phrases were tallied: ten are listed, nine of them tied at one
\* occurrence, and two with one occurrence are left out
C18_Witness ==
  /\ op = "analyzeProspectus"
  /\ Len(countInText(stripBoilerplate(stripHtml(text)), ConditionalWords)) = 12
  /\ Len(result.metrics.conditionalPhrases) = 10
  /\ result.metrics.conditionalPhrases[1].count = 2
  /\ result.metrics.conditionalPhrases[2] = [phrase |-> "might", count |-> 1]
  /\ result.metrics.conditionalPhrases[10] = [phrase |-> "seek", count |-> 1]

\* C19 for the spans found, the number of words of the stripped document
\* and the list reported
NotedRiskFactorsOnly(sections, totalWords, list) ==
  /\ Len(list) = Len(sections)
  /\ \A k \in 1..Len(list) :
       /\ list[k].name = sections[k].name
       /\ list[k].words = WordCount(sections[k].content)
       /\ list[k].note = JsString("Unusually brief")
            <=> (sections[k].name = "Risk Factors" /\ 100 * list[k].words < 3 * totalWords)
       /\ list[k].note = JsString("Extensive")
            <=> (sections[k].name = "Risk Factors" /\ 100 * list[k].words > 25 * totalWords)
       /\ list[k].note \in {JsString("Unusually brief"), JsString("Extensive"), JsUndefined}

\* C19: metrics.sectionWordCounts has one entry per span in span order; the
\* note is "Unusually brief" exactly when the span is a Risk Factors section
\* whose word count is under 3% of the words of the boilerplate-stripped
\* document, "Extensive" exactly when it is a Risk Factors section over 25%,
\* and absent in every other case, so that a section that is not Risk
\* Factors never gets a note.
C19_SectionWordCountNotes ==
  op = "analyzeProspectus" =>
    NotedRiskFactorsOnly(spans, WordCount(stripBoilerplate(stripHtml(text))),
                         result.metrics.sectionWordCounts)

\* a Risk Factors section counted as 31 words after more than 1100 words of prose
\* was noted as unusually brief
C19_Witness ==
  /\ op = "analyzeProspectus"
  /\ Len(spans) = 1
  /\ spans[1].name = "Risk Factors"
  /\ result.metrics.sectionWordCounts[1].words = 31
  /\ result.metrics.sectionWordCounts[1].note = JsString("Unusually brief")

\* the spans whose name holds the expected name, letter case apart
MatchingSpans(sections, expected) ==
  {j \in 1..Len(sections) : Includes(ToUpperCase(sections[j].name), ToUpperCase(expected))}

\* the matching spans that decide on the report of an expected name: all of
\* them in C20 as stated, the first one in C20 as amended
AllOf(matching) == matching
FirstOf(matching) == IF matching = {} THEN {} ELSE {Min(matching)}

\* the expected name is to be reported, given its matching spans and those
\* of them that decide
IsReported(sections, matching, deciding) ==
  matching = {} \/ \E j \in deciding : WordCount(sections[j].content) < 150

\* the entry list[k] is the one to report for its expected name
IsEntryFor(sections, matching, deciding, entry) ==
  IF matching = {}
  THEN entry.note = "Not located as a distinct section in the filing."
  ELSE /\ entry.note = "Present but brief"
       /\ \E j \in deciding : /\ WordCount(sections[j].content) < 150
                              /\ entry.words = WordCount(sections[j].content)

\* C20 as stated: metrics.notablyUnderdeveloped holds, in the order Risk
\* Factors, Use of Proceeds, Business, Capitalization, Dilution,
\* Underwriting, at most one entry per expected name: an expected name
\* matched by no discovered span (case-insensitive substring) is reported as
\* not located, an expected name for which some matching span has fewer than
\* 150 words is reported with that span's word count, and an expected name
\* whose matching spans all have 150 words or more is not reported.
C20_UnderdevelopedAnySpan ==
  op = "analyzeProspectus" =>
    LET list == result.metrics.notablyUnderdeveloped
        Reported(e) == IsReported(spans, MatchingSpans(spans, e), AllOf(MatchingSpans(spans, e)))
    IN /\ [k \in 1..Len(list) |-> list[k].section] = SelectSeq(expectedSections, Reported)
       /\ \A k \in 1..Len(list) :
            IsEntryFor(spans, MatchingSpans(spans, list[k].section),
                       AllOf(MatchingSpans(spans, list[k].section)), list[k])

\* C20 as amended: the same, the first matching span in document order
\* deciding alone: an expected name is reported with the word count of its
\* first matching span when that span has fewer than 150 words, and is not
\* reported when that span has 150 words or more, whatever the later
\* matching spans hold.
C20_UnderdevelopedFirstSpan ==
  op = "analyzeProspectus" =>
    LET list == result.metrics.notablyUnderdeveloped
        Reported(e) == IsReported(spans, MatchingSpans(spans, e), FirstOf(MatchingSpans(spans, e)))
    IN /\ [k \in 1..Len(list) |-> list[k].section] = SelectSeq(expectedSections, Reported)
       /\ \A k \in 1..Len(list) :
            IsEntryFor(spans, MatchingSpans(spans, list[k].section),
                       FirstOf(MatchingSpans(spans, list[k].section)), list[k])

\* two Risk Factors spans, the first of 150 words or more and the second of
\* fewer: Risk Factors is not reported, the five other names are
C20_Witness ==
  /\ op = "analyzeProspectus"
  /\ Len(spans) = 2
  /\ spans[1].name = "Risk Factors" /\ WordCount(spans[1].content) >= 150
  /\ spans[2].name = "Risk Factors" /\ WordCount(spans[2].content) < 150
  /\ Len(result.metrics.notablyUnderdeveloped) = 5
  /\ result.metrics.notablyUnderdeveloped[1].section = "Use of Proceeds"

(***************************************************************************)
(* Properties of the sections of the briefing (under SpecBriefing)         *)
(***************************************************************************)

\* the priority list as C21 gives it
PriorityNames ==
  <<"Use of Proceeds", "Risk Factors", "Prospectus Summary", "Offering", "Our Business",
    "Underwriting", "Capitalization", "Dilution">>

InPriorityList(name) == \E k \in 1..Len(PriorityNames) : PriorityNames[k] = name

\* the place of name in the priority list, and one more than its length for
\* a name outside the list
PriorityRank(name) ==
  IF InPriorityList(name) THEN Min({k \in 1..Len(PriorityNames) : PriorityNames[k] = name})
  ELSE Len(PriorityNames) + 1

\* the place of span j when the spans are put by priority rank, spans of one
\* rank in document order
PlaceByPriority(sections, j) ==
  Cardinality({i \in 1..Len(sections) :
                 \/ PriorityRank(sections[i].name) < PriorityRank(sections[j].name)
                 \/ (PriorityRank(sections[i].name) = PriorityRank(sections[j].name) /\ i < j)}) + 1

\* C21 for the spans found and the sections of the briefing
PriorityFirstThenDocumentOrder(sections, list) ==
  /\ Len(list) <= 8
  /\ \A k \in 1..Len(list) : Len(list[k].excerpts) = 1 /\ list[k].excerpts[1].quote # ""
  /\ \A k, l \in 1..Len(list) :
       (k < l /\ InPriorityList(list[l].heading))
         => /\ InPriorityList(list[k].heading)
            /\ PriorityRank(list[k].heading) <= PriorityRank(list[l].heading)
  /\ \A k \in 1..Len(list) :
       \E j \in 1..Len(sections) :
          /\ PlaceByPriority(sections, j) = k
          /\ list[k].heading = sections[j].name
          /\ list[k].excerpts[1].quote = extractSubstantiveExcerpt(sections[j].content, 280)

\* C21: the sections list of the briefing has at most 8 entries, each with
\* exactly one excerpt whose quote is non-empty; the entries whose section is
\* in the priority list come first and in the priority order, and the
\* entries for sections outside the list follow them in document order.
C21_SectionsByPriority ==
  op = "analyzeProspectus" => PriorityFirstThenDocumentOrder(spans, result.sections)

\* ten spans were found, seven of them in the priority list: the briefing
\* holds these seven in priority order and then the first other span of the
\* document
C21_Witness ==
  /\ op = "analyzeProspectus"
  /\ Len(spans) = 10
  /\ spans[1].name = "Dilution"
  /\ [k \in 1..Len(result.sections) |-> result.sections[k].heading]
       = <<"Use of Proceeds", "Prospectus Summary", "Offering", "Our Business", "Underwriting",
           "Capitalization", "Dilution", "Description of Securities">>

(***************************************************************************)
(* Properties of deriveObservation (under SpecObservation)                 *)
(***************************************************************************)

ReportsHeavy(observation) == Includes(observation, "Heavy use of conditional phrasing")
ReportsModerate(observation) == Includes(observation, "Moderate conditional phrasing")

\* the observation of a section with n conditional-phrase occurrences
\* reports heavy phrasing above 50 occurrences, moderate phrasing from lo to
\* 50 and neither below lo
ConditionalPhrasingReported(n, lo, observation) ==
  /\ ReportsHeavy(observation) <=> n > 50
  /\ ReportsModerate(observation) <=> (n >= lo /\ n <= 50)
  /\ ~(ReportsHeavy(observation) /\ ReportsModerate(observation))

\* C22 as stated: for a Risk Factors section, deriveObservation reports
\* "Heavy use of conditional phrasing" when the section holds more than 50
\* conditional-phrase occurrences, "Moderate conditional phrasing" when it
\* holds from 20 to 50 occurrences inclusive, and neither when it holds
\* fewer than 20; the two are never reported together.
C22_ModerateFromTwenty ==
  (op = "deriveObservation" /\ obsName = "Risk Factors")
    => ConditionalPhrasingReported(Len(ConditionalMatches(text)), 20, result)

\* C22 as amended: the same with "Moderate conditional phrasing" reported
\* from 21 to 50 occurrences inclusive and neither sentence reported for 20
\* occurrences or fewer.
C22_ModerateAboveTwenty ==
  (op = "deriveObservation" /\ obsName = "Risk Factors")
    => ConditionalPhrasingReported(Len(ConditionalMatches(text)), 21, result)

\* a Risk Factors section with exactly 20 conditional phrases got neither
\* sentence
C22_Witness ==
  /\ op = "deriveObservation"
  /\ obsName = "Risk Factors"
  /\ Len(ConditionalMatches(text)) = 20
  /\ ~ReportsHeavy(result) /\ ~ReportsModerate(result)

\* the sentences of the rules that fire for a section, in the order of the
\* rules: conditional phrasing for risk sections, allocation language for Use
\* of Proceeds, under 200 words while the average section exceeds 500 words,
\* over 3000 words
FiredRules(name, content, exc, all) ==
  (IF Includes(ToLowerCase(name), "risk") /\ Len(ConditionalMatches(content)) > 50
     THEN <<"Heavy use of conditional phrasing (may, could, might) throughout.">>
   ELSE IF Includes(ToLowerCase(name), "risk") /\ Len(ConditionalMatches(content)) > 20
     THEN <<"Moderate conditional phrasing.">>
   ELSE <<>>)
  \o (IF Includes(ToLowerCase(name), "use of proceeds") /\ ~HasPercentages(content) /\ Len(exc) > 100
        THEN <<"No specific allocation percentages quoted; unusually vague relative to typical disclosures.">>
      ELSE IF Includes(ToLowerCase(name), "use of proceeds") /\ HasSpecifics(content)
        THEN <<"Specific dollar amounts or allocation described in the filing.">>
      ELSE <<>>)
  \o (IF WordCount(content) < 200 /\ Len(all) > 0 /\ TotalWords(all, 1) > 500 * Len(all)
        THEN <<"Unusually brief relative to other sections.">> ELSE <<>>)
  \o (IF WordCount(content) > 3000 THEN <<"Extensive disclosure in this section.">> ELSE <<>>)

\* the sentences of fired from the k-th on, joined by one space
RECURSIVE JoinedFrom(_, _)
JoinedFrom(fired, k) ==
  IF k > Len(fired) THEN ""
  ELSE IF k = Len(fired) THEN fired[k]
  ELSE fired[k] \o " " \o JoinedFrom(fired, k + 1)

\* C23 for the sentences fired and the observation returned
NeutralOrJoined(fired, observation) ==
  /\ observation # ""
  /\ (observation = "Verbatim from the Prospectus. Length and structure mechanically reported below.")
       <=> fired = <<>>
  /\ fired # <<>> => observation = JoinedFrom(fired, 1)

\* C23: the observation returned by deriveObservation is never empty: it is
\* the neutral templated sentence exactly when none of the rules fired, and
\* otherwise it is the sentences of the rules that fired, joined in the
\* fixed order of the rules.
C23_ObservationNeverEmpty ==
  op = "deriveObservation" =>
    NeutralOrJoined(FiredRules(obsName, text, obsExcerpt, obsSections), result)

\* a short Risk Factors section with 51 conditional phrases among sections
\* of more than 500 words on average: two rules fired
C23_Witness ==
  /\ op = "deriveObservation"
  /\ obsName = "Risk Factors"
  /\ result = "Heavy use of conditional phrasing (may, could, might) throughout. "
                \o "Unusually brief relative to other sections."

(***************************************************************************)
(* Properties of stripBoilerplate (under SpecStrip)                        *)
(***************************************************************************)

\* the offsets at which the lines of t start
LineStarts(t) == {0} \cup {p + 1 : p \in {q \in 0..(Len(t) - 1) : CharAt(t, q) = "\n"}}

\* the number of the line of t that starts at s, from 0
LineNumber(t, s) == Cardinality({x \in LineStarts(t) : x < s})

\* the line of t that starts at s, without its newline
LineFrom(t, s) == Slice(t, s, IF IndexOf(t, "\n", s) < 0 THEN Len(t) ELSE IndexOf(t, "\n", s))

\* the line is one of the first 50 and is substantive: at least 80
\* characters, a lowercase letter, not purely digits, blanks, "$", "." and ","
IsSubstantiveAt(t, s) == LineNumber(t, s) < 50 /\ IsSubstantive(Trim(LineFrom(t, s)))

\* the line is classified as boilerplate or as short metadata
IsClassifiedAt(t, s) ==
  /\ Trim(LineFrom(t, s)) # ""
  /\ \/ IsBoilerplate(Trim(LineFrom(t, s)))
     \/ LineNumber(t, s) < 5 /\ IsShortMetadata(Trim(LineFrom(t, s)))

EndsWith(s, tail) ==
  Len(tail) <= Len(s) /\ SubSeq(s, Len(s) - Len(tail) + 1, Len(s)) = tail

\* nothing is removed from the first of the lines that start at stops on,
\* and without such a line r is t trimmed
KeptFromFirst(t, stops, r) ==
  IF stops = {} THEN r = Trim(t) ELSE EndsWith(r, Trim(SliceFrom(t, Min(stops))))

\* C24 as stated: stripBoilerplate stops at the first substantive line
\* among the first 50 lines: no character of that line or of any later line
\* is removed (the trimming of the result apart); and when there is no
\* substantive line within the first 50 lines, nothing is skipped and the
\* result is the input trimmed.
C24_KeptFromFirstSubstantive ==
  op = "stripBoilerplate" =>
    KeptFromFirst(text, {s \in LineStarts(text) : IsSubstantiveAt(text, s)}, result)

\* C24 as amended: the same for the first line among the first 50 that is
\* substantive and is not classified as boilerplate or short metadata; a
\* substantive line that is so classified is skipped like any other
\* classified line.
C24_KeptFromFirstUnclassifiedSubstantive ==
  op = "stripBoilerplate" =>
    KeptFromFirst(text,
                  {s \in LineStarts(text) : IsSubstantiveAt(text, s) /\ ~IsClassifiedAt(text, s)},
                  result)

\* a line of 80 characters or more that starts with a dollar amount came
\* before the line at which the scan stopped, and was removed
C24_Witness ==
  /\ op = "stripBoilerplate"
  /\ IsSubstantiveAt(text, 0) /\ IsClassifiedAt(text, 0)
  /\ \E s \in LineStarts(text) :
       /\ s > 0 /\ IsSubstantiveAt(text, s) /\ ~IsClassifiedAt(text, s)
       /\ result = Trim(SliceFrom(text, s))

\* C25: the prefix removed by stripBoilerplate consists only of whole lines
\* classified as boilerplate or short metadata, together with blank lines:
\* no character of a line that was not so classified is removed and no
\* classified line is left partly in the output, for every arrangement of
\* classified, blank and unclassified lines before the first substantive
\* line.
C25_WholeClassifiedLinesRemoved ==
  op = "stripBoilerplate" =>
    \E s \in LineStarts(text) :
       /\ result = Trim(SliceFrom(text, s))
       /\ \A x \in LineStarts(text) :
            x < s => IsClassifiedAt(text, x) \/ Trim(LineFrom(text, x)) = ""

(***************************************************************************)
(* Properties of useSecFilings (under SpecHook)                            *)
(***************************************************************************)

\* every run has ended
AllRunsEnded == fetchRuns # <<>> /\ \A k \in 1..Len(fetchRuns) : fetchRuns[k].pc = "done"

\* every request that run k made was rejected or answered not OK
EveryRequestFailed(k) ==
  \A n \in 1..Len(fetchRuns[k].outcomes) : fetchRuns[k].outcomes[n] \in {"threw", "not ok"}

\* C26: when every request made during fetchFilings is rejected or answered
\* non-OK, useSecFilings finishes with error set to the "Live SEC data
\* unavailable" message, dataSource 'curated', filings and recentFilings
\* empty and isLoading false.
C26_UnavailableReported ==
  (AllRunsEnded /\ \A k \in 1..Len(fetchRuns) : EveryRequestFailed(k)) =>
     /\ error = JsString(UnavailableMessage)
     /\ dataSource = "curated"
     /\ filings = <<>>
     /\ recentFilings = <<>>
     /\ ~hookLoading

\* what the hook does leave then: the empty lists of a quiet period
C26_UnavailableLooksEmpty ==
  (AllRunsEnded /\ \A k \in 1..Len(fetchRuns) : EveryRequestFailed(k)) =>
     /\ error = JsNull
     /\ dataSource = "sec-api"
     /\ filings = <<>>
     /\ recentFilings = <<>>
     /\ ~hookLoading

\* the places of the enrichment requests in the log of run k
RequestsOf(k) ==
  {p \in 1..Len(fetchRuns[k].log) : fetchRuns[k].log[p].kind = "request"}

\* the requests of run k are for the filings in their order, each made
\* after the answer to the one before it
OneAtATimeInOrder(k) ==
  \A p \in RequestsOf(k) :
     LET n == Cardinality({q \in RequestsOf(k) : q < p})
     IN /\ fetchRuns[k].log[p].index = n
        /\ fetchRuns[k].log[p].cik = PadStart(fetchRuns[k].secFilings[n + 1].cik, CikLen, "0")
        /\ n > 0 => \E q \in 1..(p - 1) :
                      /\ fetchRuns[k].log[q].kind = "answer"
                      /\ fetchRuns[k].log[q].index = n - 1

\* between two requests of run k lies the pause of 160 ms
PausedBetween(k) ==
  \A p, q \in RequestsOf(k) :
     p < q => \E r \in (p + 1)..(q - 1) :
                /\ fetchRuns[k].log[r].kind = "pause"
                /\ fetchRuns[k].log[r].ms = 160

\* C28: the enrichment requests of a run are issued one at a time in filing
\* order, and any two consecutive requests are separated by the 160 ms
\* pause, for every sector filter and every outcome of the sector check.
C28_EnrichmentPaced ==
  \A k \in 1..Len(fetchRuns) : OneAtATimeInOrder(k) /\ PausedBetween(k)

\* the part of C28 that holds: one at a time, in filing order
C28_EnrichmentInOrder ==
  \A k \in 1..Len(fetchRuns) : OneAtATimeInOrder(k)

\* C29: when fetchFilings is started again while an earlier run is in
\* flight, the state left once both have completed (filings, recentFilings,
\* dataSource, error) is the result of the most recently started run.
C29_LatestRunWins ==
  (AllRunsEnded /\ Len(fetchRuns) > 1 /\ fetchRuns[Len(fetchRuns)].inFlight # {}) =>
     Left(filings, recentFilings, dataSource, error) = fetchRuns[Len(fetchRuns)].left[1]

\* what holds instead: the state is the result of the run that ended last
C29_LastEndedRunWins ==
  AllRunsEnded =>
     Left(filings, recentFilings, dataSource, error) = fetchRuns[lastUpdated].left[1]

(***************************************************************************)
(* Properties of the proxy handlers (under SpecProxy)                      *)
(***************************************************************************)

\* the query parameter is missing
IsMissing(q) == q.type = "undefined" \/ q.value = ""

\* the query parameter is missing or has no digit
HasNoDigit(q) == IsMissing(q) \/ DigitsOnly(q.value) = ""

\* the parameters of the GET request served are not usable
UnusableParameters ==
  /\ apiReq.method = "GET"
  /\ \/ HasNoDigit(apiReq.cik)
     \/ apiReq.handler # "submissions" /\ IsMissing(apiReq.accession)

\* C27: a GET to the prospectus, prospectus-url or submissions handler whose
\* cik is missing or has no digit (or, for the first two, whose accession is
\* missing) is answered with status 400 and makes no request to the SEC.
C27_UnusableParametersRejected ==
  (apiPc # "idle" /\ UnusableParameters) =>
     /\ apiOutbound = <<>>
     /\ apiPc = "done"
     /\ apiStatus = 400

\* the case that does hold: the accession is missing
C27_MissingAccessionRejected ==
  (apiPc # "idle" /\ apiReq.method = "GET" /\ apiReq.handler # "submissions"
     /\ IsMissing(apiReq.accession)) =>
     /\ apiOutbound = <<>>
     /\ apiPc = "done"
     /\ apiStatus = 400

(***************************************************************************)
(* Properties of ViewProspectusLink (under SpecLink)                       *)
(***************************************************************************)

\* the link shown comes from the url state
ShowsUrlState ==
  mounted /\ directProspectusUrl(linkProps).type = "null" /\ url.type = "string"

\* a response of a request whose effect run has been cleaned up arrives
LateResponse(k) ==
  /\ k \in 1..Len(linkEffects)
  /\ linkEffects[k].cancelled
  /\ ~linkEffects[k].settled
  /\ Len(linkEffects') = Len(linkEffects)
  /\ linkEffects'[k].settled

\* C30: once the effect for a (cik, accessionNumber) pair has been cleaned
\* up, a late response of its request never changes url, so the link shown
\* never comes from a request made for earlier props.
C30_LinkFromCurrentProps ==
  (ShowsUrlState /\ urlFrom[1].request) =>
     /\ urlFrom[1].props.cik = linkProps.cik
     /\ urlFrom[1].props.accessionNumber = linkProps.accessionNumber

\* the part of C30 that the cancelled flag gives: a late response of a
\* cleaned-up effect run leaves url as it is
C30_LateResponseIgnored ==
  [][\A k \in 1..Len(linkEffects) : LateResponse(k) => url' = url]_vars

====
